---- MODULE Spec2Model ----
(***************************************************************************)
(* Resource quota enforcer: the reconciliation side.                       *)
(*                                                                         *)
(*   - handlers.go: computeUsage, Reason, selectPodToDelete and the        *)
(*     bounded enforcement loop EnforceUntilOK, run against one namespace  *)
(*     whose pods are created concurrently (specifications Spec and        *)
(*     ReliableSpec);                                                      *)
(*   - the same pure functions applied to arbitrary small pod lists        *)
(*     (specification PureSpec);                                           *)
(*   - controller: the worker pool around the rate limited work queue,     *)
(*     processNextItem, the event handlers and the periodic resync         *)
(*     (specification QueueSpec); syncHandler step by step (SyncSpec),     *)
(*     shutdown (StopSpec), a namespace that always fails (RetrySpec),     *)
(*     the start-up of Run (StartSpec), events that arrive during a pass   *)
(*     (EventSpec);                                                        *)
(*   - EnforceUntilOK on a namespace with at least maxIterations pods      *)
(*     (CrowdedSpec) and on one whose pods go away (GoneSpec);             *)
(*   - webhook: the admission decision evaluatePodAgainstPolicy on its     *)
(*     own (AdmitSpec) and HandleValidatePods with the policy cache        *)
(*     TypedPolicyCache (WebhookSpec); the cache following the policy      *)
(*     objects of the API server (WatchSpec); concurrent admission         *)
(*     requests whose pods are stored after the decision (RaceSpec).       *)
(*                                                                         *)
(* Quantities (CPU, memory) are natural numbers of one request unit.       *)
(* A pod list is a set of pod records; a container's request for a         *)
(* resource is {} when the Requests map has no entry and {q} otherwise.    *)
(***************************************************************************)
EXTENDS Integers, Sequences, FiniteSets, TLC

\* ------------------------------------------------------------------ bounds

\* pods created in one namespace during a run (initial pods included)
MaxCreate == 2

\* worker goroutines started by Run (its parameter workers)
NumWorkers == 2

\* admission requests the API server has in flight at a time
MaxInflight == 2

\* the rate limiter's requeue counter is followed up to this value
MaxFailures == 2

\* pods in a list handed directly to computeUsage or selectPodToDelete
MaxList == 2

\* ------------------------------------------------------ program constants

\* a loop that runs once more
maxIterationsOffByOne == 10 + 1

\* handlers.go:41  maxIterations := 10 // safety limit
maxIterations == 10

PodSucceeded == "Succeeded"
PodFailed == "Failed"

\* ------------------------------------------------------------ value sets

NoRequests == [cpu |-> {}, mem |-> {}]
CpuRequest == [cpu |-> {1}, mem |-> {}]
MemRequest == [cpu |-> {}, mem |-> {1}]
BothRequest == [cpu |-> {1}, mem |-> {1}]

\* a container that sets Resources.Limits and no Requests
LimitsOnly == [cpu |-> {}, mem |-> {}, cpuLimit |-> {2}, memLimit |-> {2}]

\* the pods the environment creates: live pods without requests, with a
\* CPU request, with a memory request, and completed pods
PodKinds ==
    {[phase |-> "Running", containers |-> <<NoRequests>>],
     [phase |-> "Running", containers |-> <<CpuRequest>>],
     [phase |-> "Running", containers |-> <<MemRequest>>],
     [phase |-> PodSucceeded, containers |-> <<BothRequest>>]}

\* policies handed to EnforceUntilOK
Policies == [MaxPods : {0, 1, 2}, MaxCPU : {1, 3}, MaxMemory : {1}]

\* ------------------------------------------------------------- helpers

\* the sum of a sequence of quantities (resource.Quantity.Add in a loop)
RECURSIVE SeqSum(_)
SeqSum(s) == IF s = <<>> THEN 0 ELSE Head(s) + SeqSum(Tail(s))

\* the quantity a container adds for one resource: the request when the
\* Requests map has the key, nothing otherwise (handlers.go:107-112)
RequestOf(r) == IF r = {} THEN 0 ELSE CHOOSE q \in r : TRUE

PodCPU(p) == SeqSum([k \in 1..Len(p.containers) |-> RequestOf(p.containers[k].cpu)])
PodMem(p) == SeqSum([k \in 1..Len(p.containers) |-> RequestOf(p.containers[k].mem)])

RECURSIVE TotalCPU(_)
TotalCPU(S) ==
    IF S = {} THEN 0
    ELSE LET p == CHOOSE x \in S : TRUE IN PodCPU(p) + TotalCPU(S \ {p})

RECURSIVE TotalMem(_)
TotalMem(S) ==
    IF S = {} THEN 0
    ELSE LET p == CHOOSE x \in S : TRUE IN PodMem(p) + TotalMem(S \ {p})

\* a phase test that lets Failed pods through
IsCompletedOnlySucceeded(p) == p.phase = PodSucceeded

\* "ignore completed pods" (handlers.go:102)
IsCompleted(p) == p.phase = PodSucceeded \/ p.phase = PodFailed

LivePods(podList) == {p \in podList : ~IsCompleted(p)}

\* ---------------------------------------------------------- computeUsage

NoMessage == <<>>

\* the violation checks of computeUsage (handlers.go:116-130): three
\* independent ifs, each of which overwrites msg
ViolationMessage(count, totalCPU, totalMem, policy) ==
    LET m1 == IF count > policy.MaxPods
              THEN <<"pods", count, policy.MaxPods>> ELSE NoMessage
        m2 == IF totalCPU > policy.MaxCPU
              THEN <<"cpu", totalCPU, policy.MaxCPU>> ELSE m1
        m3 == IF totalMem > policy.MaxMemory
              THEN <<"memory", totalMem, policy.MaxMemory>> ELSE m2
    IN  m3

\* thresholds compared with >= instead of >
computeUsageInclusive(podList, policy) ==
    LET live == LivePods(podList)
        count == Cardinality(live)
        totalCPU == TotalCPU(live)
        totalMem == TotalMem(live)
        hit == \/ count >= policy.MaxPods
               \/ totalCPU >= policy.MaxCPU
               \/ totalMem >= policy.MaxMemory
        msg == ViolationMessage(count, totalCPU, totalMem, policy)
    IN  [CurrentPods |-> count,
         CurrentCPU |-> totalCPU,
         CurrentMemory |-> totalMem,
         Violation |-> hit,
         Message |-> IF hit /\ msg = NoMessage
                     THEN <<"pods", count, policy.MaxPods>> ELSE msg]

computeUsage(podList, policy) ==
    LET live == LivePods(podList)
        count == Cardinality(live)
        totalCPU == TotalCPU(live)
        totalMem == TotalMem(live)
    IN  [CurrentPods |-> count,
         CurrentCPU |-> totalCPU,
         CurrentMemory |-> totalMem,
         Violation |-> \/ count > policy.MaxPods
                       \/ totalCPU > policy.MaxCPU
                       \/ totalMem > policy.MaxMemory,
         Message |-> ViolationMessage(count, totalCPU, totalMem, policy)]

\* EnforcementResult{} returned with an error
ZeroResult ==
    [CurrentPods |-> 0, CurrentCPU |-> 0, CurrentMemory |-> 0,
     Violation |-> FALSE, Message |-> NoMessage]

\* EnforcementResult.Reason (handlers.go:162-177): the prefix of Message
Reason(r) ==
    IF r.Message = NoMessage THEN ""
    ELSE IF r.Message[1] = "pods" THEN "pods"
    ELSE IF r.Message[1] = "cpu" THEN "cpu"
    ELSE IF r.Message[1] = "memory" THEN "memory"
    ELSE ""

\* a result left without a message
NoSuitablePodUnset == <<>>

\* handlers.go:65  res.Message = "violation but no suitable pod to delete"
NoSuitablePod == <<"violation but no suitable pod to delete">>

\* ------------------------------------------------------ selectPodToDelete

Oldest(podList) == {p \in podList : \A o \in podList : p.ts <= o.ts}
Newest(podList) == {p \in podList : \A o \in podList : p.ts >= o.ts}

\* variants of selectPodToDelete with one branch wrong
selectPodNotFound(podList, reason) == {}

selectPodAlwaysNewest(podList, reason) ==
    IF podList = {} THEN {} ELSE Newest(podList)

selectPodAlwaysOldest(podList, reason) ==
    IF podList = {} THEN {} ELSE Oldest(podList)

selectPodSwapped(podList, reason) ==
    IF podList = {} THEN {}
    ELSE IF reason = "pods" THEN Newest(podList)
    ELSE Oldest(podList)

\* selectPodToDelete (handlers.go:143-159): pods[0] after sort.Slice by
\* creation timestamp, ascending for "pods", descending otherwise.  The sort
\* is not stable, so among equal timestamps any pod may come first: the
\* result is the set of pods the call can return ({} is "not found").
selectPodToDelete(podList, reason) ==
    IF podList = {} THEN {}
    ELSE IF reason = "pods" THEN Oldest(podList)
    ELSE Newest(podList)

\* ------------------------------------------------------------ the state

VARIABLES
    \* --- the namespace EnforceUntilOK works on
    pods,       \* the pods the API server holds for the namespace
    created,    \* how many pods have been created so far (names the next pod)
    clock,      \* creation timestamp of the most recently created pod
    policy,     \* the Policy passed to EnforceUntilOK
    \* --- one call of EnforceUntilOK (handlers.go:40-87)
    pc,         \* "idle" | "compute" | "select" | "final" | "done"
    iter,       \* the loop counter i
    res,        \* res of the last computeUsage of the loop
    lastErr,    \* "nil" | "list" | "delete"
    listed,     \* pods.Items of the List at line 56
    target,     \* {} or {the pod selectPodToDelete returned}
    ret,        \* the returned (EnforcementResult, error)
    \* --- history of the current call
    delReqs,    \* Delete requests issued
    deleted,    \* pods removed by a successful Delete
    churn,      \* a pod was created while the call was running
    reason,     \* the reason argument of a direct selectPodToDelete call
    \* --- the controller's rate limited work queue (c.queue)
    queue,      \* keys ready to be handed out, in order
    dirty,      \* keys that need processing
    processing, \* keys between Get and Done
    waiting,    \* keys AddRateLimited holds back until their delay is over
    failures,   \* the rate limiter's per-key requeue counter
    shuttingDown,
    stopped,    \* stopCh is closed
    absorbed,   \* keys for which an Add found the key already dirty, since
                \* the key was last handed to a worker
    \* --- the workers started by Run
    wpc,        \* per worker: "get" | "sync" | "return" | "exited"
                \* ("unwind": a panic is propagating out of processNextItem)
    wkey,       \* per worker: the key obtained by Get ("" when none)
    pass,       \* per worker: what the current or last pass did
    \* --- syncHandler and the policy objects of the namespace it reconciles
    policyCache,\* e.enforcer.PolicyCache: per namespace {} or {policy}
    crs,        \* the ResourceQuotaPolicy objects of the namespace, in
                \* list order, each given by the Policy parsed from its spec
    sh,         \* the syncHandler call in progress, and what it did
    consecFails,\* failed passes of the namespace since its last successful one
    \* --- the admission webhook and its policy cache (TypedPolicyCache)
    ready,      \* pc.ready
    synced,     \* informer.HasSynced()
    cpc,        \* Run of the cache: "init" | "waiting" | "serving" | "returned"
    store,      \* the policy objects in the informer's store
    api,        \* the policy objects in the API server
    adm,        \* the admission request handled last and its response
    inflight,   \* pods the webhook allowed that the API server has not stored yet
    \* --- the controller's start-up (Run, part_008:68-150)
    crun,       \* Run: "init" | "waiting" | "ready" | "serving" | "returned"
    nsSynced,   \* nsInformer.HasSynced()
    podSynced,  \* podInformer.HasSynced()
    isReady,    \* health.isReady
    \* --- history
    owed        \* keys enqueued by an event while a worker held them, for
                \* which no pass has started since

evars == <<pods, created, clock, policy, pc, iter, res, lastErr, listed,
           target, ret, delReqs, deleted, churn, reason>>

qvars == <<queue, dirty, processing, waiting, failures, shuttingDown,
           stopped, absorbed, wpc, wkey, pass>>

svars == <<policyCache, crs, sh, consecFails>>

wvars == <<ready, synced, cpc, store, api, adm, inflight>>

cvars == <<crun, nsSynced, podSynced, isReady>>

hvars == <<owed>>

vars == <<evars, qvars, svars, wvars, cvars, hvars>>

NoReturn == [res |-> ZeroResult, err |-> "nil"]

\* --------------------------------------------------- the controller's queue

Namespaces == {"ns1", "ns2"}
Workers == 1..NumWorkers

NoPass == [outcome |-> "none", dones |-> 0, forgets |-> 0, requeues |-> 0]

\* Run after its start-up: caches synced, ready set, workers started
Started ==
    /\ crun = "serving"
    /\ nsSynced = TRUE
    /\ podSynced = TRUE
    /\ isReady = TRUE

EmptyQueue ==
    /\ owed = {}
    /\ queue = <<>>
    /\ dirty = {}
    /\ processing = {}
    /\ waiting = {}
    /\ failures = [k \in Namespaces |-> 0]
    /\ shuttingDown = FALSE
    /\ stopped = FALSE
    /\ absorbed = {}
    /\ wkey = [w \in Workers |-> ""]
    /\ pass = [w \in Workers |-> NoPass]

QueueIdle ==
    /\ EmptyQueue
    /\ wpc = [w \in Workers |-> "get"]
    /\ Started

\* no syncHandler call yet, empty PolicyCache (main.go:45-48)
NoSync ==
    [at |-> "none", list |-> <<>>, item |-> 0, listed |-> FALSE,
     uncached |-> FALSE, deletes |-> FALSE, statusWrites |-> 0,
     enforceFailed |-> FALSE, statusFailed |-> FALSE, status |-> {}]

\* no admission request handled yet
NoAdmission ==
    [at |-> "none", ns |-> "", spec |-> {}, pod |-> <<>>, found |-> FALSE,
     listed |-> FALSE, responded |-> FALSE, allowed |-> FALSE,
     message |-> <<>>, err |-> "nil"]

\* the webhook before its cache is started
WebhookIdle ==
    /\ ready = FALSE
    /\ synced = FALSE
    /\ cpc = "init"
    /\ store = {}
    /\ api = {}
    /\ inflight = <<>>
    /\ adm = NoAdmission

SyncIdle ==
    /\ policyCache = [k \in Namespaces |-> {}]
    /\ crs = <<>>
    /\ sh = NoSync
    /\ consecFails = 0
    /\ WebhookIdle

InQueue(k) == \E n \in 1..Len(queue) : queue[n] = k

\* an Add that appends whether or not the key is pending
QueueAddNoDedup(k) ==
    IF shuttingDown
    THEN UNCHANGED <<queue, dirty, absorbed>>
    ELSE /\ dirty' = dirty \cup {k}
         /\ queue' = IF k \in processing THEN queue ELSE Append(queue, k)
         /\ absorbed' = IF k \in dirty THEN absorbed \cup {k} ELSE absorbed

\* an Add that ignores a key that is being processed
QueueAddIgnoresHeld(k) ==
    IF shuttingDown \/ k \in dirty \/ k \in processing
    THEN /\ UNCHANGED <<queue, dirty>>
         /\ absorbed' = IF shuttingDown THEN absorbed ELSE absorbed \cup {k}
    ELSE /\ dirty' = dirty \cup {k}
         /\ queue' = Append(queue, k)
         /\ UNCHANGED absorbed

\* queue.Add(k): nothing when shutting down or when k is already dirty;
\* a key being processed is only marked dirty, Done puts it back
QueueAdd(k) ==
    IF shuttingDown \/ k \in dirty
    THEN /\ UNCHANGED <<queue, dirty>>
         /\ absorbed' = IF shuttingDown THEN absorbed ELSE absorbed \cup {k}
    ELSE /\ dirty' = dirty \cup {k}
         /\ queue' = IF k \in processing THEN queue ELSE Append(queue, k)
         /\ UNCHANGED absorbed

\* queue.AddRateLimited(k) = AddAfter(k, rateLimiter.When(k)): When counts
\* the requeue, AddAfter parks the key until DelayOver (the delay of the
\* exponential limiter is never zero).  The counter is followed up to
\* MaxFailures: from there on the limiter's delay only stays or grows.
QueueAddRateLimited(k) ==
    /\ failures' = [failures EXCEPT
                      ![k] = IF @ < MaxFailures THEN @ + 1 ELSE @]
    /\ waiting' = IF shuttingDown THEN waiting ELSE waiting \cup {k}

\* Done called right after Get instead of deferred
DoneNotDeferred == FALSE

\* line 179: defer c.queue.Done(obj) runs when processNextItem returns, after
\* the reconciliation and the requeue or Forget
DoneIsDeferred == TRUE

\* Forget left out
ForgetNever(err) == FALSE

\* line 206: c.queue.Forget(ns) on the path where syncHandler returned nil
ForgetAfter(err) == ~err

\* ---- event handlers and timers (Controller.Run)

\* nsInformer Add/Update/Delete -> enqueueNamespace -> queue.Add (lines 77-81)
enqueueNamespace(k) ==
    /\ ~stopped
    /\ QueueAdd(k)
    /\ UNCHANGED <<processing, waiting, failures, shuttingDown, stopped,
                   wpc, wkey, pass>>
    /\ UNCHANGED <<evars, svars, wvars, cvars, hvars>>

NamespaceEvent == \E k \in Namespaces : enqueueNamespace(k)

\* podInformer Add/Update/Delete -> queue.AddRateLimited (lines 83-99)
podEnqueue(k) ==
    /\ ~stopped
    /\ failures[k] < MaxFailures
    /\ QueueAddRateLimited(k)
    /\ UNCHANGED <<queue, dirty, processing, shuttingDown, stopped, absorbed,
                   wpc, wkey, pass>>
    /\ UNCHANGED <<evars, svars, wvars, cvars, hvars>>

PodEvent == \E k \in Namespaces : podEnqueue(k)

\* the 60 second ticker (lines 127-147): AddRateLimited for every namespace
\* listed, nothing when the List fails
ResyncWith(listOK) ==
    /\ ~stopped
    /\ IF listOK
       THEN /\ failures' = [k \in Namespaces |->
                               IF failures[k] < MaxFailures
                               THEN failures[k] + 1 ELSE failures[k]]
            /\ waiting' = IF shuttingDown THEN waiting ELSE Namespaces
       ELSE UNCHANGED <<failures, waiting>>
    /\ UNCHANGED <<queue, dirty, processing, shuttingDown, stopped, absorbed,
                   wpc, wkey, pass>>
    /\ UNCHANGED <<evars, svars, wvars, cvars, hvars>>

ResyncTick ==
    /\ \A k \in Namespaces : failures[k] < MaxFailures
    /\ \E listOK \in BOOLEAN : ResyncWith(listOK)

\* the delaying queue: a parked key's delay is over, it is Added
DelayOver ==
    /\ \E k \in waiting :
          /\ waiting' = waiting \ {k}
          /\ QueueAdd(k)
    /\ UNCHANGED <<processing, failures, shuttingDown, stopped, wpc, wkey,
                   pass>>
    /\ UNCHANGED <<evars, svars, wvars, cvars, hvars>>

\* close(stopCh)
Stop ==
    /\ ~stopped
    /\ stopped' = TRUE
    /\ UNCHANGED <<queue, dirty, processing, waiting, failures, shuttingDown,
                   absorbed, wpc, wkey, pass>>
    /\ UNCHANGED <<evars, svars, wvars, cvars, hvars>>

\* a Run that returns without shutting the queue down
RunWithoutShutDown ==
    /\ stopped
    /\ FALSE
    /\ UNCHANGED vars

\* Run returns from <-stopCh; its deferred c.queue.ShutDown() (lines 71-74)
RunShutDown ==
    /\ stopped
    /\ ~shuttingDown
    /\ shuttingDown' = TRUE
    /\ UNCHANGED <<queue, dirty, processing, waiting, failures, stopped,
                   absorbed, wpc, wkey, pass>>
    /\ UNCHANGED <<evars, svars, wvars, cvars, hvars>>

\* ---- processNextItem (lines 173-209), one worker goroutine

\* a Done that never puts a key back on the queue
DoneQueueDrops(qu, di, pr, k) == qu

\* queue.Done(k) applied to the sets: k leaves processing and, when it was
\* marked dirty meanwhile, goes back on the queue
DoneQueue(qu, di, pr, k) == IF k \in di THEN Append(qu, k) ELSE qu

\* line 175: queue.Get() blocks while the queue is empty and not shut down
GetKey(w) ==
    /\ wpc[w] = "get"
    /\ queue # <<>>
    /\ LET k == Head(queue)
       IN  /\ wkey' = [wkey EXCEPT ![w] = k]
           /\ dirty' = dirty \ {k}
           /\ IF DoneIsDeferred
              THEN /\ queue' = Tail(queue)
                   /\ processing' = processing \cup {k}
                   /\ pass' = [pass EXCEPT ![w] = NoPass]
              ELSE /\ queue' = Tail(queue)
                   /\ processing' = processing
                   /\ pass' = [pass EXCEPT ![w] = [NoPass EXCEPT !.dones = 1]]
    /\ wpc' = [wpc EXCEPT ![w] = "sync"]
    /\ absorbed' = absorbed \ {Head(queue)}
    /\ UNCHANGED <<waiting, failures, shuttingDown, stopped>>
    /\ UNCHANGED <<evars, svars, wvars, cvars, hvars>>

\* lines 176-178: Get reports shutdown, the worker leaves its loop
GetShutdown(w) ==
    /\ wpc[w] = "get"
    /\ queue = <<>>
    /\ shuttingDown
    /\ wpc' = [wpc EXCEPT ![w] = "exited"]
    /\ UNCHANGED <<queue, dirty, processing, waiting, failures, shuttingDown,
                   stopped, absorbed, wkey, pass>>
    /\ UNCHANGED <<evars, svars, wvars, cvars, hvars>>

\* a panic of syncHandler that nothing recovers inside processNextItem
PanicEscapes == FALSE

\* lines 190-195: the deferred recover turns a panic of syncHandler into the
\* error returned by the closure
PanicRecovered == TRUE

\* lines 198-208: what processNextItem does with the outcome of the
\* closure around syncHandler: AddRateLimited on an error, Forget otherwise.
\* A panic that were not recovered would unwind processNextItem and the
\* worker's loop up to the recover of the goroutine (lines 116-120).
ProcessOutcome(w, outcome) ==
    LET err == outcome # "ok"
        k == wkey[w]
        unwinds == outcome = "panic" /\ ~PanicRecovered
    IN  /\ IF unwinds
           THEN UNCHANGED <<waiting, failures>>
           ELSE IF err
           THEN QueueAddRateLimited(k)
           ELSE /\ waiting' = waiting
                /\ failures' = IF ForgetAfter(err)
                               THEN [failures EXCEPT ![k] = 0]
                               ELSE failures
        /\ pass' = [pass EXCEPT ![w] =
                      [@ EXCEPT !.outcome = outcome,
                                !.requeues = IF err /\ ~unwinds
                                             THEN @ + 1 ELSE @,
                                !.forgets = IF ForgetAfter(err)
                                            THEN @ + 1 ELSE @]]
        /\ wpc' = [wpc EXCEPT ![w] = IF unwinds THEN "unwind" ELSE "return"]
        /\ UNCHANGED <<queue, dirty, processing, shuttingDown, stopped,
                       absorbed, wkey>>

\* the same while the failure counter is below MaxFailures
FinishSync(w, outcome) ==
    /\ (outcome # "ok" /\ PanicRecovered) => failures[wkey[w]] < MaxFailures
    /\ ProcessOutcome(w, outcome)

\* lines 181-208: the key is a string (only strings are ever added);
\* syncHandler returns nil or an error, or panics and the deferred recover
\* turns the panic into an error; then AddRateLimited or Forget
SyncKey(w) ==
    /\ wpc[w] = "sync"
    /\ \E outcome \in {"ok", "err", "panic"} : FinishSync(w, outcome)
    /\ UNCHANGED <<evars, svars, wvars, cvars, hvars>>

\* processNextItem returns true: the deferred queue.Done(obj) runs
DoneKey(w) ==
    /\ wpc[w] \in {"return", "unwind"}
    /\ LET k == wkey[w]
       IN  IF DoneIsDeferred
           THEN /\ queue' = DoneQueue(queue, dirty, processing, k)
                /\ processing' = processing \ {k}
                /\ pass' = [pass EXCEPT ![w].dones = @ + 1]
           ELSE UNCHANGED <<queue, processing, pass>>
    /\ wpc' = [wpc EXCEPT ![w] = IF wpc[w] = "unwind" THEN "exited" ELSE "get"]
    /\ wkey' = [wkey EXCEPT ![w] = ""]
    /\ UNCHANGED <<dirty, waiting, failures, shuttingDown, stopped, absorbed>>
    /\ UNCHANGED <<evars, svars, wvars, cvars, hvars>>

processNextItem(w) ==
    \/ GetKey(w)
    \/ GetShutdown(w)
    \/ SyncKey(w)
    \/ DoneKey(w)

Worker == \E w \in Workers : processNextItem(w)

\* ------------------------------------------------------- the environment

\* A pod is created in the namespace (kubectl, a ReplicaSet, ...).  Creation
\* timestamps have one-second granularity: the new pod's is the clock's or
\* one later.  Completed pods stay in the namespace until deleted.
CreatePod ==
    /\ created < MaxCreate
    /\ \E kind \in PodKinds, tick \in {0, 1} :
          /\ pods' = pods \cup {[id |-> created + 1, ts |-> clock + tick,
                                 phase |-> kind.phase,
                                 containers |-> kind.containers]}
          /\ clock' = clock + tick
    /\ created' = created + 1
    /\ churn' = (churn \/ pc # "idle")
    /\ UNCHANGED <<policy, pc, iter, res, lastErr, listed, target, ret,
                   delReqs, deleted>>
    /\ UNCHANGED <<reason, qvars, svars, wvars, cvars, hvars>>

\* ------------------------------------------------------- EnforceUntilOK

\* syncHandler calls EnforceUntilOK(ns, policy) (line 255 of the controller)
EnforceStart ==
    /\ pc = "idle"
    /\ pc' = "compute"
    /\ UNCHANGED <<pods, created, clock, policy, iter, res, lastErr, listed,
                   target, ret, delReqs, deleted, churn>>
    /\ UNCHANGED <<reason, qvars, svars, wvars, cvars, hvars>>

Return(result, err) ==
    /\ ret' = [res |-> result, err |-> err]
    /\ pc' = "done"

\* lines 44-53: the loop condition, computeUsage and the compliance test
LoopComputeWith(outcomes) ==
    /\ pc = "compute"
    /\ iter < maxIterations
    /\ listed' = {}
    /\ target' = {}
    /\ \E listOK \in outcomes :
          IF ~listOK
          THEN /\ Return(ZeroResult, "list")
               /\ UNCHANGED res
          ELSE LET r == computeUsage(pods, policy)
               IN  /\ res' = r
                   /\ IF ~r.Violation
                      THEN Return(r, "nil")
                      ELSE /\ pc' = "select"
                           /\ UNCHANGED ret
    /\ UNCHANGED <<pods, created, clock, policy, iter, lastErr, delReqs,
                   deleted, churn>>
    /\ UNCHANGED <<reason, qvars, svars, wvars, cvars, hvars>>

\* a Delete after which lastErr is set whatever its outcome
ErrAfterDeleteSticky(delOK, err) == "delete"

\* lines 69-70: lastErr = delErr when the Delete fails; nothing resets it
ErrAfterDelete(delOK, err) == IF delOK THEN err ELSE "delete"

\* lines 55-78: List, selectPodToDelete, Delete, and the sleeps
SelectAndDeleteWith(outcomes) ==
    /\ pc = "select"
    /\ \E listOK \in outcomes :
          IF ~listOK
          THEN \* lastErr = err; break
               /\ lastErr' = "list"
               /\ pc' = "final"
               /\ UNCHANGED <<pods, iter, res, listed, target, ret, delReqs,
                              deleted>>
          ELSE LET found == selectPodToDelete(pods, Reason(res))
               IN  IF found = {}
                   THEN \* nothing to delete => return res, nil
                        /\ Return([res EXCEPT !.Message = NoSuitablePod], "nil")
                        /\ listed' = pods
                        /\ UNCHANGED <<pods, iter, res, lastErr, target,
                                       delReqs, deleted>>
                   ELSE \E t \in found, delOK \in outcomes :
                          /\ listed' = pods
                          /\ target' = {t}
                          /\ delReqs' = delReqs + 1
                          /\ iter' = iter + 1
                          /\ pc' = "compute"
                          /\ lastErr' = ErrAfterDelete(delOK, lastErr)
                          /\ IF delOK
                             THEN /\ pods' = pods \ {t}
                                  /\ deleted' = deleted \cup {t}
                             ELSE UNCHANGED <<pods, deleted>>
                          /\ UNCHANGED <<res, ret>>
    /\ UNCHANGED <<created, clock, policy, churn>>
    /\ UNCHANGED <<reason, qvars, svars, wvars, cvars, hvars>>

\* lines 81-86: the final check, after a break or after maxIterations
FinalCheckWith(outcomes) ==
    /\ \/ pc = "final"
       \/ pc = "compute" /\ iter >= maxIterations
    /\ \E listOK \in outcomes :
          IF ~listOK
          THEN Return(ZeroResult, "list")
          ELSE Return(computeUsage(pods, policy), lastErr)
    /\ UNCHANGED <<pods, created, clock, policy, iter, res, lastErr, listed,
                   target, delReqs, deleted, churn>>
    /\ UNCHANGED <<reason, qvars, svars, wvars, cvars, hvars>>

\* the caller takes the result; the next pass may start
EnforceReturn ==
    /\ pc = "done"
    /\ pc' = "idle"
    /\ iter' = 0
    /\ lastErr' = "nil"
    /\ res' = ZeroResult
    /\ listed' = {}
    /\ target' = {}
    /\ ret' = NoReturn
    /\ delReqs' = 0
    /\ deleted' = {}
    /\ churn' = FALSE
    /\ UNCHANGED <<pods, created, clock, policy>>
    /\ UNCHANGED <<reason, qvars, svars, wvars, cvars, hvars>>

\* every API call can fail
LoopCompute == LoopComputeWith(BOOLEAN)
SelectAndDelete == SelectAndDeleteWith(BOOLEAN)
FinalCheck == FinalCheckWith(BOOLEAN)

EnforceStep ==
    \/ EnforceStart
    \/ LoopCompute
    \/ SelectAndDelete
    \/ FinalCheck
    \/ EnforceReturn

Init ==
    /\ pods = {}
    /\ created = 0
    /\ clock = 1
    /\ policy \in Policies
    /\ pc = "idle"
    /\ iter = 0
    /\ res = ZeroResult
    /\ lastErr = "nil"
    /\ listed = {}
    /\ target = {}
    /\ ret = NoReturn
    /\ delReqs = 0
    /\ deleted = {}
    /\ churn = FALSE
    /\ reason = ""
    /\ QueueIdle
    /\ SyncIdle

Next ==
    \/ CreatePod
    \/ EnforceStart
    \/ LoopCompute
    \/ SelectAndDelete
    \/ FinalCheck
    \/ EnforceReturn

Spec == Init /\ [][Next]_vars

\* ---- the same namespace when every List and Delete succeeds and the
\* worker keeps being scheduled (the resync timer requeues the namespace
\* every 60 seconds, so a new pass always follows).  The final check of
\* lines 81-86 is then reached only after maxIterations successful deletes
\* in one call, more pods than a run creates.

ReliableCompute == LoopComputeWith({TRUE})
ReliableDelete == SelectAndDeleteWith({TRUE})

ReliableStep ==
    \/ EnforceStart
    \/ ReliableCompute
    \/ ReliableDelete
    \/ EnforceReturn

ReliableNext ==
    \/ CreatePod
    \/ EnforceStart
    \/ ReliableCompute
    \/ ReliableDelete
    \/ EnforceReturn

ReliableSpec == Init /\ [][ReliableNext]_vars /\ WF_vars(ReliableStep)

\* ------------------------------------------------ the functions on their own

PurePolicies == [MaxPods : {0, 1, 2}, MaxCPU : {0, 1, 2}, MaxMemory : {0, 1}]

PureKinds ==
    [ts : {1, 2},
     phase : {"Running", PodSucceeded, PodFailed},
     containers : {<<NoRequests, LimitsOnly>>, <<CpuRequest>>, <<MemRequest>>,
                   <<BothRequest, CpuRequest>>}]

PureLists ==
    UNION {{{[id |-> n, ts |-> f[n].ts, phase |-> f[n].phase,
              containers |-> f[n].containers] : n \in 1..len}
            : f \in [1..len -> PureKinds]}
           : len \in 0..MaxList}

PureInit ==
    /\ pods \in PureLists
    /\ created = 0
    /\ clock = 1
    /\ policy \in PurePolicies
    /\ pc = "input"
    /\ iter = 0
    /\ res = ZeroResult
    /\ lastErr = "nil"
    /\ listed = {}
    /\ target = {}
    /\ ret = NoReturn
    /\ delReqs = 0
    /\ deleted = {}
    /\ churn = FALSE
    /\ reason = ""
    /\ QueueIdle
    /\ SyncIdle

\* res, err := e.computeUsage(namespace, policy) on a List that succeeds
CallComputeUsage ==
    /\ pc = "input"
    /\ res' = computeUsage(pods, policy)
    /\ pc' = "computed"
    /\ UNCHANGED <<pods, created, clock, policy, iter, lastErr, listed,
                   target, ret, delReqs, deleted, churn, reason, qvars, svars, wvars, cvars, hvars>>

\* target, ok := selectPodToDelete(pods.Items, reason)
CallSelectPodToDelete ==
    /\ pc = "input"
    /\ \E r \in {"pods", "cpu", "memory"} :
          /\ reason' = r
          /\ listed' = pods
          /\ LET found == selectPodToDelete(pods, r)
             IN  IF found = {} THEN target' = {}
                 ELSE \E t \in found : target' = {t}
    /\ pc' = "selected"
    /\ UNCHANGED <<pods, created, clock, policy, iter, res, lastErr, ret,
                   delReqs, deleted, churn, qvars, svars, wvars, cvars, hvars>>

PureNext ==
    \/ CallComputeUsage
    \/ CallSelectPodToDelete

PureSpec == PureInit /\ [][PureNext]_vars

\* ------------------------------------------------- the queue specification

EnforcerIdle ==
    /\ pods = {}
    /\ created = 0
    /\ clock = 1
    /\ policy = [MaxPods |-> 0, MaxCPU |-> 0, MaxMemory |-> 0]
    /\ pc = "idle"
    /\ iter = 0
    /\ res = ZeroResult
    /\ lastErr = "nil"
    /\ listed = {}
    /\ target = {}
    /\ ret = NoReturn
    /\ delReqs = 0
    /\ deleted = {}
    /\ churn = FALSE
    /\ reason = ""

QueueInit == EnforcerIdle /\ QueueIdle /\ SyncIdle

QueueNext ==
    \/ NamespaceEvent
    \/ PodEvent
    \/ ResyncTick
    \/ DelayOver
    \/ Stop
    \/ RunShutDown
    \/ Worker

QueueSpec == QueueInit /\ [][QueueNext]_vars

\* ------------------------------------------- a namespace with many pods

\* EnforceUntilOK called on a namespace that holds at least maxIterations
\* running pods, each requesting one unit of CPU, created one after the
\* other
CrowdedLists ==
    {{[id |-> n, ts |-> n, phase |-> "Running", containers |-> <<CpuRequest>>]
        : n \in 1..len} : len \in maxIterations..(maxIterations + MaxCreate)}

CrowdedInit ==
    /\ pods \in CrowdedLists
    /\ created = Cardinality(pods)
    /\ clock = created
    /\ policy \in Policies
    /\ pc = "idle"
    /\ iter = 0
    /\ res = ZeroResult
    /\ lastErr = "nil"
    /\ listed = {}
    /\ target = {}
    /\ ret = NoReturn
    /\ delReqs = 0
    /\ deleted = {}
    /\ churn = FALSE
    /\ reason = ""
    /\ QueueIdle
    /\ SyncIdle

CrowdedNext ==
    \/ EnforceStart
    \/ LoopCompute
    \/ SelectAndDelete
    \/ FinalCheck
    \/ EnforceReturn

CrowdedSpec == CrowdedInit /\ [][CrowdedNext]_vars

\* ------------------------------------------------------------ syncHandler

\* policy objects in one namespace
MaxPolicies == 2

\* the namespace whose reconciliation is followed step by step
SyncNamespace == "ns1"

\* the policy its policy objects carry
SyncPolicies == {[MaxPods |-> 1, MaxCPU |-> 1, MaxMemory |-> 1]}

\* the lists of policy objects the namespace can hold
PolicyLists == UNION {[1..n -> SyncPolicies] : n \in 0..MaxPolicies}

\* the pods the namespace holds when the controller starts: running pods
\* that each request one unit of CPU
SyncPodLists ==
    {{[id |-> n, ts |-> n, phase |-> "Running", containers |-> <<CpuRequest>>]
        : n \in 1..len} : len \in 0..MaxCreate}

\* a cache that keeps its entry
deleteCachedNothing(cache, ns) == cache

\* lines 227-229: delete(c.enforcer.PolicyCache, ns)
deleteCached(cache, ns) == [cache EXCEPT ![ns] = {}]

\* a status whose usage fields are exchanged
StatusOfSwapped(enforced) ==
    [CurrentPods |-> enforced.CurrentPods,
     CPUUsage |-> enforced.CurrentMemory,
     MemoryUsage |-> enforced.CurrentCPU,
     Violation |-> enforced.Violation,
     Message |-> enforced.Message]

\* lines 271-277: the status built from the result of EnforceUntilOK
StatusOf(enforced) ==
    [CurrentPods |-> enforced.CurrentPods,
     CPUUsage |-> enforced.CurrentCPU,
     MemoryUsage |-> enforced.CurrentMemory,
     Violation |-> enforced.Violation,
     Message |-> enforced.Message]

\* the state of EnforceUntilOK between two calls
CallReset ==
    /\ pc' = "idle"
    /\ iter' = 0
    /\ lastErr' = "nil"
    /\ res' = ZeroResult
    /\ listed' = {}
    /\ target' = {}
    /\ ret' = NoReturn
    /\ delReqs' = 0
    /\ deleted' = {}
    /\ churn' = FALSE

\* lines 218-232: list the policy objects; an error is returned, a panic is
\* recovered by the caller, an empty list removes the cached policy and
\* returns nil, a non-empty list starts the loop over the items
SyncList(w) ==
    /\ wpc[w] = "sync"
    /\ wkey[w] = SyncNamespace
    /\ sh.at \in {"none", "done"}
    /\ \E result \in {"ok", "err", "panic"} :
          IF result # "ok"
          THEN /\ sh' = [NoSync EXCEPT !.at = "done"]
               /\ FinishSync(w, result)
               /\ consecFails' = consecFails + 1
               /\ UNCHANGED policyCache
          ELSE IF crs = <<>>
          THEN /\ policyCache' = deleteCached(policyCache, wkey[w])
               /\ sh' = [NoSync EXCEPT !.at = "done", !.listed = TRUE,
                                       !.uncached = TRUE]
               /\ FinishSync(w, "ok")
               /\ consecFails' = 0
          ELSE /\ sh' = [NoSync EXCEPT !.at = "item", !.listed = TRUE,
                                       !.list = crs, !.item = 1]
               /\ UNCHANGED <<policyCache, consecFails, qvars, cvars, hvars>>
    /\ UNCHANGED <<crs, evars, wvars, cvars, hvars>>

\* lines 235-255: the next item: its policy goes into the cache and
\* EnforceUntilOK is called with it
SyncItemStart(w) ==
    /\ wpc[w] = "sync"
    /\ wkey[w] = SyncNamespace
    /\ sh.at = "item"
    /\ pc = "idle"
    /\ policy' = sh.list[sh.item]
    /\ policyCache' = [policyCache EXCEPT ![wkey[w]] = {sh.list[sh.item]}]
    /\ pc' = "compute"
    /\ sh' = [sh EXCEPT !.at = "enforce"]
    /\ UNCHANGED <<pods, created, clock, iter, res, lastErr, listed, target,
                   ret, delReqs, deleted, churn, reason>>
    /\ UNCHANGED <<crs, consecFails, qvars, wvars, cvars, hvars>>

\* lines 255-293: EnforceUntilOK has returned.  On an error the item is
\* skipped (continue); otherwise the status is written (updatePolicyStatus,
\* lines 300-318: Get, obj.Status = *status, UpdateStatus), and a failed
\* write skips the item too.  After the last item syncHandler returns nil
\* (line 296).
SyncItemEnd(w) ==
    /\ wpc[w] = "sync"
    /\ wkey[w] = SyncNamespace
    /\ sh.at = "enforce"
    /\ pc = "done"
    /\ CallReset
    /\ \E statusOK \in BOOLEAN :
          LET enforceErr == ret.err # "nil"
              last == sh.item = Len(sh.list)
          IN  /\ enforceErr => statusOK
              /\ sh' = [sh EXCEPT
                          !.at = IF last THEN "done" ELSE "item",
                          !.list = IF last THEN <<>> ELSE @,
                          !.item = IF last THEN 0 ELSE @ + 1,
                          !.deletes = @ \/ delReqs > 0,
                          !.enforceFailed = @ \/ enforceErr,
                          !.statusFailed = @ \/ ~statusOK,
                          !.statusWrites = IF ~enforceErr /\ statusOK
                                           THEN @ + 1 ELSE @,
                          !.status = IF ~enforceErr /\ statusOK
                                     THEN {StatusOf(ret.res)} ELSE @]
              /\ IF last
                 THEN /\ FinishSync(w, "ok")
                      /\ consecFails' = 0
                 ELSE UNCHANGED <<consecFails, qvars, cvars, hvars>>
    /\ UNCHANGED <<pods, created, clock, policy, reason>>
    /\ UNCHANGED <<policyCache, crs, wvars, cvars, hvars>>

\* a policy object of the namespace is deleted by its owner
DeletePolicyObject ==
    /\ crs # <<>>
    /\ crs' = Tail(crs)
    /\ UNCHANGED <<policyCache, sh, consecFails>>
    /\ UNCHANGED <<evars, qvars, wvars, cvars, hvars>>

SyncInit ==
    /\ pods \in SyncPodLists
    /\ created = Cardinality(pods)
    /\ clock = created
    /\ policy = [MaxPods |-> 0, MaxCPU |-> 0, MaxMemory |-> 0]
    /\ pc = "idle"
    /\ iter = 0
    /\ res = ZeroResult
    /\ lastErr = "nil"
    /\ listed = {}
    /\ target = {}
    /\ ret = NoReturn
    /\ delReqs = 0
    /\ deleted = {}
    /\ churn = FALSE
    /\ reason = ""
    /\ QueueIdle
    /\ policyCache = [k \in Namespaces |-> {}]
    /\ crs \in PolicyLists
    /\ sh = NoSync
    /\ consecFails = 0
    /\ WebhookIdle

\* the worker whose passes are followed (Run started with one worker)
SyncWorkers == {1}

SyncWorker ==
    \E w \in SyncWorkers :
        \/ GetKey(w)
        \/ SyncList(w)
        \/ SyncItemStart(w)
        \/ SyncItemEnd(w)
        \/ DoneKey(w)

\* syncHandler is not in the middle of a call.  The steps inside a call
\* read and write only the pods, the cache and the call's own state, which
\* no event touches, so every interleaving of an event with them is
\* equivalent to one where the event comes before or after the call.
BetweenCalls == sh.at \in {"none", "done"}

SyncNext ==
    \/ BetweenCalls /\ enqueueNamespace(SyncNamespace)
    \/ BetweenCalls /\ podEnqueue(SyncNamespace)
    \/ BetweenCalls /\ DelayOver
    \/ BetweenCalls /\ DeletePolicyObject
    \/ SyncWorker
    \/ LoopCompute
    \/ SelectAndDelete
    \/ FinalCheck

SyncSpec == SyncInit /\ [][SyncNext]_vars

\* ------------------------------------- a namespace whose pods go away

\* a pod of the namespace is deleted by another client, or ends and is
\* collected, while EnforceUntilOK runs
PodGone ==
    /\ \E p \in pods : pods' = pods \ {p}
    /\ UNCHANGED <<created, clock, policy, pc, iter, res, lastErr, listed,
                   target, ret, delReqs, deleted, churn>>
    /\ UNCHANGED <<reason, qvars, svars, wvars, cvars, hvars>>

GoneInit ==
    /\ pods \in SyncPodLists
    /\ created = Cardinality(pods)
    /\ clock = created
    /\ policy \in Policies
    /\ pc = "idle"
    /\ iter = 0
    /\ res = ZeroResult
    /\ lastErr = "nil"
    /\ listed = {}
    /\ target = {}
    /\ ret = NoReturn
    /\ delReqs = 0
    /\ deleted = {}
    /\ churn = FALSE
    /\ reason = ""
    /\ QueueIdle
    /\ SyncIdle

GoneNext ==
    \/ PodGone
    \/ EnforceStart
    \/ LoopCompute
    \/ SelectAndDelete
    \/ FinalCheck
    \/ EnforceReturn

GoneSpec == GoneInit /\ [][GoneNext]_vars

\* ------------------------------------------------- the admission webhook

\* the strings a policy object's maxCPU and maxMemory hold; "" is the field
\* left out of the object (json omitempty)
QuantityStrings == {"", "0", "1", "2"}

\* resource.ParseQuantity: {} is the error every string that is not a
\* quantity gets, the empty string included
ParseQuantity(str) ==
    IF str = "0" THEN {0}
    ELSE IF str = "1" THEN {1}
    ELSE IF str = "2" THEN {2}
    ELSE {}

\* resource.MustParse panics when ParseQuantity returns an error
MustParsePanics(str) == ParseQuantity(str) = {}
MustParse(str) == CHOOSE q \in ParseQuantity(str) : TRUE

\* server.go:403: pods whose phase is Succeeded or Failed are skipped
IsTerminal(p) == p.phase = PodSucceeded \/ p.phase = PodFailed

Panicked == [panic |-> TRUE, allowed |-> FALSE, reason |-> <<>>, err |-> "nil"]

\* evaluatePodAgainstPolicy (server.go:389-438) on the containers of the
\* candidate pod, the policy spec from the cache and the result of the List
evaluatePodAgainstPolicy(podList, pod, spec, listOK) ==
    IF MustParsePanics(spec.MaxCPU) \/ MustParsePanics(spec.MaxMemory)
    THEN Panicked
    ELSE IF ~listOK
    THEN [panic |-> FALSE, allowed |-> TRUE, reason |-> <<>>, err |-> "list"]
    ELSE LET maxPods == spec.MaxPods
             maxCPU == MustParse(spec.MaxCPU)
             maxMem == MustParse(spec.MaxMemory)
             live == {p \in podList : ~IsTerminal(p)}
             totalPods == Cardinality(live) + 1
             totalCPU == TotalCPU(live) + PodCPU([containers |-> pod])
             totalMem == TotalMem(live) + PodMem([containers |-> pod])
             deny(r) == [panic |-> FALSE, allowed |-> FALSE, reason |-> r,
                         err |-> "nil"]
         IN  IF maxPods > 0 /\ totalPods > maxPods
             THEN deny(<<"maxPods exceeded", totalPods, maxPods>>)
             ELSE IF maxCPU > 0 /\ totalCPU > maxCPU
             THEN deny(<<"cpu exceeded", totalCPU, maxCPU>>)
             ELSE IF maxMem > 0 /\ totalMem > maxMem
             THEN deny(<<"memory exceeded", totalMem, maxMem>>)
             ELSE [panic |-> FALSE, allowed |-> TRUE, reason |-> <<>>,
                   err |-> "nil"]

\* a handler that refuses the request when evaluatePodAgainstPolicy
\* returns an error
DecideFailClosed(podList, pod, spec, listOK) ==
    LET e == evaluatePodAgainstPolicy(podList, pod, spec, listOK)
    IN  IF e.panic
        THEN [responded |-> FALSE, allowed |-> FALSE, message |-> <<>>,
              listed |-> FALSE, err |-> "nil"]
        ELSE IF e.err # "nil"
        THEN [responded |-> TRUE, allowed |-> FALSE, message |-> <<>>,
              listed |-> FALSE, err |-> e.err]
        ELSE [responded |-> TRUE, allowed |-> e.allowed, message |-> e.reason,
              listed |-> TRUE, err |-> "nil"]

\* HandleValidatePods from line 345 on: the response for a policy found in
\* the cache.  A panic of evaluatePodAgainstPolicy leaves the handler: no
\* AdmissionReview is written for the request.
Decide(podList, pod, spec, listOK) ==
    LET e == evaluatePodAgainstPolicy(podList, pod, spec, listOK)
    IN  IF e.panic
        THEN [responded |-> FALSE, allowed |-> FALSE, message |-> <<>>,
              listed |-> FALSE, err |-> "nil"]
        ELSE IF e.err # "nil"
        THEN [responded |-> TRUE, allowed |-> TRUE, message |-> <<>>,
              listed |-> FALSE, err |-> e.err]
        ELSE IF ~e.allowed
        THEN [responded |-> TRUE, allowed |-> FALSE, message |-> e.reason,
              listed |-> TRUE, err |-> "nil"]
        ELSE [responded |-> TRUE, allowed |-> TRUE, message |-> <<>>,
              listed |-> TRUE, err |-> "nil"]

\* ---- the decision for a policy found in the cache, on its own

\* the policy specs a policy object can carry
AdmitSpecs ==
    [MaxPods : {0, 1, 2}, MaxCPU : QuantityStrings, MaxMemory : {"", "0", "1"}]

\* the containers of a candidate pod
AdmitCandidates ==
    {<<NoRequests>>, <<CpuRequest>>, <<MemRequest>>, <<BothRequest, CpuRequest>>}

AdmitKinds ==
    [ts : {1},
     phase : {"Running", PodSucceeded, PodFailed},
     containers : {<<NoRequests>>, <<CpuRequest>>, <<MemRequest>>}]

\* the pods of the namespace when the request arrives
AdmitLists ==
    UNION {{{[id |-> n, ts |-> f[n].ts, phase |-> f[n].phase,
              containers |-> f[n].containers] : n \in 1..len}
            : f \in [1..len -> AdmitKinds]}
           : len \in 0..MaxList}

AdmitInit ==
    /\ pods \in AdmitLists
    /\ created = 0
    /\ clock = 1
    /\ policy = [MaxPods |-> 0, MaxCPU |-> 0, MaxMemory |-> 0]
    /\ pc = "idle"
    /\ iter = 0
    /\ res = ZeroResult
    /\ lastErr = "nil"
    /\ listed = {}
    /\ target = {}
    /\ ret = NoReturn
    /\ delReqs = 0
    /\ deleted = {}
    /\ churn = FALSE
    /\ reason = ""
    /\ QueueIdle
    /\ policyCache = [k \in Namespaces |-> {}]
    /\ crs = <<>>
    /\ sh = NoSync
    /\ consecFails = 0
    /\ ready = TRUE
    /\ synced = TRUE
    /\ cpc = "serving"
    /\ store = {}
    /\ api = {}
    /\ inflight = <<>>
    /\ \E sp \in AdmitSpecs, cand \in AdmitCandidates :
          adm = [NoAdmission EXCEPT !.at = "found", !.ns = SyncNamespace,
                                    !.spec = {sp}, !.pod = cand,
                                    !.found = TRUE]

\* lines 345-367 for the request at hand
AdmitDecide ==
    /\ adm.at = "found"
    /\ \E listOK \in BOOLEAN, sp \in adm.spec :
          LET d == Decide(pods, adm.pod, sp, listOK)
          IN  adm' = [adm EXCEPT !.at = "done",
                                 !.listed = d.listed,
                                 !.responded = d.responded,
                                 !.allowed = d.allowed,
                                 !.message = d.message,
                                 !.err = d.err]
    /\ UNCHANGED <<ready, synced, cpc, store, api, inflight>>
    /\ UNCHANGED <<evars, qvars, svars, cvars, hvars>>

AdmitNext == AdmitDecide

AdmitSpec == AdmitInit /\ [][AdmitNext]_vars

\* ---- the webhook with its policy cache (TypedPolicyCache, part_004)

\* the policy specs of the objects the store can hold
WebhookSpecs ==
    {[MaxPods |-> 1, MaxCPU |-> "", MaxMemory |-> ""],
     [MaxPods |-> 0, MaxCPU |-> "1", MaxMemory |-> "1"]}

StoreObjects == [ns : Namespaces, spec : WebhookSpecs]

NotFound == [found |-> FALSE, spec |-> {}]

\* a Get that does not look at the ready flag
CacheGetUngated(rdy, st, ns) ==
    LET here == {o \in st : o.ns = ns}
    IN  IF here = {} THEN {NotFound}
        ELSE {[found |-> TRUE, spec |-> {o.spec}] : o \in here}

\* TypedPolicyCache.Get (lines 70-90): what the call can return.  The
\* lister's List gives the namespace's objects in no fixed order, so
\* policies[0] is any of them.
CacheGet(rdy, st, ns) ==
    IF ~rdy THEN {NotFound}
    ELSE LET here == {o \in st : o.ns = ns}
         IN  IF here = {} THEN {NotFound}
             ELSE {[found |-> TRUE, spec |-> {o.spec}] : o \in here}

\* a wait whose result is not looked at
WaitForCacheSyncIgnored(syn, stp) == syn \/ stp

\* cache.WaitForCacheSync(stopCh, HasSynced) returns true once HasSynced is
\* true, and false when stopCh is closed first
WaitForCacheSync(syn, stp) == syn

\* a request without a policy that is refused
RefuseNoPolicy ==
    [responded |-> TRUE, allowed |-> FALSE, message |-> <<>>,
     listed |-> FALSE, err |-> "nil"]

\* server.go:338-343: no policy for the namespace
AllowNoPolicy ==
    [responded |-> TRUE, allowed |-> TRUE, message |-> <<>>,
     listed |-> FALSE, err |-> "nil"]

\* the pods of a namespace; one namespace has pods
PodsIn(ns) == IF ns = SyncNamespace THEN pods ELSE {}

\* line 54: pc.factory.Start(stopCh)
CacheRun ==
    /\ cpc = "init"
    /\ cpc' = "waiting"
    /\ UNCHANGED <<ready, synced, store, api, adm, inflight>>
    /\ UNCHANGED <<evars, qvars, svars, cvars, hvars>>

\* a policy object is created in the API server, or deleted from it
PolicyChange ==
    /\ \E o \in StoreObjects :
          \/ /\ o \notin api
             /\ Cardinality(api) < MaxPolicies
             /\ api' = api \cup {o}
          \/ /\ o \in api
             /\ api' = api \ {o}
    /\ UNCHANGED <<ready, synced, cpc, store, adm, inflight>>
    /\ UNCHANGED <<evars, qvars, svars, cvars, hvars>>

\* the informer's initial List fills the store with the objects of the API
\* server; HasSynced turns true.  The informer stops with stopCh.
InformerSync ==
    /\ cpc # "init"
    /\ ~synced
    /\ ~stopped
    /\ store' = api
    /\ synced' = TRUE
    /\ UNCHANGED <<ready, cpc, api, adm, inflight>>
    /\ UNCHANGED <<evars, qvars, svars, cvars, hvars>>

\* a watch that delivers creations only
DeliveredAddsOnly(st, a, o) == IF o \in a THEN st \cup {o} ELSE st

\* the store after the informer handled the watch event about object o:
\* an added object is put into the indexer, a deleted one is removed
Delivered(st, a, o) == IF o \in a THEN st \cup {o} ELSE st \ {o}

\* the informer receives the watch event about an object whose creation or
\* deletion it has not seen yet
WatchDeliver(o) ==
    /\ synced
    /\ ~stopped
    /\ (o \in api) # (o \in store)
    /\ store' = Delivered(store, api, o)
    /\ UNCHANGED <<ready, synced, cpc, api, adm, inflight>>
    /\ UNCHANGED <<evars, qvars, svars, cvars, hvars>>

WatchEvent == \E o \in StoreObjects : WatchDeliver(o)

\* lines 56-63: the wait returned true, ready is set
CacheSyncDone ==
    /\ cpc = "waiting"
    /\ WaitForCacheSync(synced, stopped)
    /\ ready' = TRUE
    /\ cpc' = "serving"
    /\ UNCHANGED <<synced, store, api, adm, inflight>>
    /\ UNCHANGED <<evars, qvars, svars, cvars, hvars>>

\* lines 56-59: the wait returned false, Run returns
CacheSyncFailed ==
    /\ cpc = "waiting"
    /\ stopped
    /\ cpc' = "returned"
    /\ UNCHANGED <<ready, synced, store, api, adm, inflight>>
    /\ UNCHANGED <<evars, qvars, svars, cvars, hvars>>

\* line 66: <-stopCh
CacheRunReturn ==
    /\ cpc = "serving"
    /\ stopped
    /\ cpc' = "returned"
    /\ UNCHANGED <<ready, synced, store, api, adm, inflight>>
    /\ UNCHANGED <<evars, qvars, svars, cvars, hvars>>

\* a handler that creates the pod it allows
PodsAfterDecisionCreates(podList, ns, cand, d) ==
    IF ns = SyncNamespace /\ d.responded /\ d.allowed
    THEN podList \cup {[id |-> Cardinality(podList) + 1,
                        ts |-> Cardinality(podList) + 1,
                        phase |-> "Running", containers |-> cand]}
    ELSE podList

\* the pods after HandleValidatePods: the handler's only API call is the
\* List of line 394, it creates and deletes nothing
PodsAfterDecision(podList, ns, cand, d) == podList

\* HandleValidatePods (server.go:302-368) for a Pod CREATE in namespace ns
\* whose object decodes to a pod with the containers cand
HandleValidatePods ==
    /\ \E ns \in Namespaces, cand \in {<<NoRequests>>, <<CpuRequest>>},
          listOK \in BOOLEAN :
        \E g \in CacheGet(ready, store, ns) :
          LET d == IF ~g.found
                   THEN AllowNoPolicy
                   ELSE Decide(PodsIn(ns), cand,
                               CHOOSE sp \in g.spec : TRUE, listOK)
          IN  /\ adm' = [at |-> "done", ns |-> ns, spec |-> g.spec,
                         pod |-> cand, found |-> g.found,
                         listed |-> d.listed, responded |-> d.responded,
                         allowed |-> d.allowed, message |-> d.message,
                         err |-> d.err]
              /\ pods' = PodsAfterDecision(pods, ns, cand, d)
    /\ UNCHANGED <<ready, synced, cpc, store, api, inflight>>
    /\ UNCHANGED <<created, clock, policy, pc, iter, res, lastErr, listed,
                   target, ret, delReqs, deleted, churn, reason>>
    /\ UNCHANGED <<qvars, svars, cvars, hvars>>

\* an Invalidate that evicts the namespace's policies from the store
InvalidateEvicts(st, ns) == {o \in st : o.ns # ns}

\* TypedPolicyCache.Invalidate (part_004:92-93): the empty function
Invalidate(st, ns) == st

\* InvalidateHandler (server.go:371-386) for a payload that names ns
InvalidateHandler ==
    /\ \E ns \in Namespaces :
          /\ store' = Invalidate(store, ns)
          /\ adm' = [NoAdmission EXCEPT !.at = "invalidated", !.ns = ns]
    /\ UNCHANGED <<ready, synced, cpc, api, inflight>>
    /\ UNCHANGED <<evars, qvars, svars, cvars, hvars>>

WebhookInit ==
    /\ pods \in SyncPodLists
    /\ created = Cardinality(pods)
    /\ clock = created
    /\ policy = [MaxPods |-> 0, MaxCPU |-> 0, MaxMemory |-> 0]
    /\ pc = "idle"
    /\ iter = 0
    /\ res = ZeroResult
    /\ lastErr = "nil"
    /\ listed = {}
    /\ target = {}
    /\ ret = NoReturn
    /\ delReqs = 0
    /\ deleted = {}
    /\ churn = FALSE
    /\ reason = ""
    /\ QueueIdle
    /\ SyncIdle

WebhookNext ==
    \/ CacheRun
    \/ PolicyChange
    \/ InformerSync
    \/ WatchEvent
    \/ CacheSyncDone
    \/ CacheSyncFailed
    \/ CacheRunReturn
    \/ Stop
    \/ HandleValidatePods
    \/ InvalidateHandler

WebhookSpec == WebhookInit /\ [][WebhookNext]_vars

\* The informer's reflector goroutine runs until stopCh closes and handles
\* every event of its watch; Run of the cache is a goroutine of its own.
WatchInit ==
    /\ WebhookInit
    /\ pods = {}

WatchNext ==
    \/ CacheRun
    \/ PolicyChange
    \/ InformerSync
    \/ WatchEvent
    \/ CacheSyncDone
    \/ CacheSyncFailed
    \/ CacheRunReturn
    \/ Stop

WatchSpec ==
    /\ WatchInit
    /\ [][WatchNext]_vars
    /\ \A o \in StoreObjects : WF_vars(WatchDeliver(o))

\* ---------------------------------------------------------------- shutdown

\* The controller from start to shutdown, with the events of one namespace.
\* The goroutines keep running: Run returns once stopCh is closed, and
\* worker goroutines take their next step.
StopNext ==
    \/ enqueueNamespace(SyncNamespace)
    \/ DelayOver
    \/ Stop
    \/ RunShutDown
    \/ Worker

StopSpec ==
    QueueInit /\ [][StopNext]_vars /\ WF_vars(RunShutDown) /\ WF_vars(Worker)

\* ---- a namespace whose reconciliation fails on every pass: syncHandler
\* returns an error or panics each time for SyncNamespace and returns nil
\* for the other namespaces.  The ticker of the resync loop fires and its
\* List succeeds, every delay of the rate limiter ends, every worker
\* goroutine keeps being scheduled, and syncHandler returns.

FailingPass(w) ==
    /\ wpc[w] = "sync"
    /\ wkey[w] = SyncNamespace
    /\ \E outcome \in {"err", "panic"} : ProcessOutcome(w, outcome)
    /\ UNCHANGED <<evars, svars, wvars, cvars, hvars>>

OtherPass(w) ==
    /\ wpc[w] = "sync"
    /\ wkey[w] # SyncNamespace
    /\ ProcessOutcome(w, "ok")
    /\ UNCHANGED <<evars, svars, wvars, cvars, hvars>>

retryWorker(w) ==
    \/ GetKey(w)
    \/ GetShutdown(w)
    \/ FailingPass(w)
    \/ OtherPass(w)
    \/ DoneKey(w)

\* two of the worker goroutines are followed
RetryWorkers == {1, 2}

RetryWorker == \E w \in RetryWorkers : retryWorker(w)

ResyncListed == ResyncWith(TRUE)

\* the delay of key k is over
DelayOverFor(k) == DelayOver /\ k \in waiting /\ k \notin waiting'

RetryNext ==
    \/ ResyncListed
    \/ DelayOver
    \/ Stop
    \/ RunShutDown
    \/ RetryWorker

RetrySpec ==
    /\ QueueInit
    /\ [][RetryNext]_vars
    /\ WF_vars(ResyncListed)
    /\ \A k \in Namespaces : WF_vars(DelayOverFor(k))
    /\ \A w \in RetryWorkers : WF_vars(retryWorker(w))

\* ---- the start-up of the controller (Run, part_008:68-150): the informers
\* are started, Run waits for both caches, sets the ready flag and starts
\* the workers.  Events reach the handlers as soon as the informers run.

\* a wait that looks at the namespace informer only
HasSyncedFirst(nsS, podS) == nsS

\* line 105: WaitForCacheSync(stopCh, nsInformer.HasSynced,
\* podInformer.HasSynced) needs every HasSynced to be true
HasSyncedAll(nsS, podS) == nsS /\ podS

\* ReadyzHandler (informer.go:37-44): the status code of /readyz
ReadyzHandler(rdy) == IF rdy THEN 200 ELSE 503

\* lines 102-103: go c.nsInformer.Run(stopCh); go c.podInformer.Run(stopCh)
RunStart ==
    /\ crun = "init"
    /\ crun' = "waiting"
    /\ UNCHANGED <<nsSynced, podSynced, isReady>>
    /\ UNCHANGED <<evars, qvars, svars, wvars, hvars>>

\* an informer finishes its initial List; it stops with stopCh
NsInformerSync ==
    /\ crun # "init"
    /\ ~stopped
    /\ ~nsSynced
    /\ nsSynced' = TRUE
    /\ UNCHANGED <<crun, podSynced, isReady>>
    /\ UNCHANGED <<evars, qvars, svars, wvars, hvars>>

PodInformerSync ==
    /\ crun # "init"
    /\ ~stopped
    /\ ~podSynced
    /\ podSynced' = TRUE
    /\ UNCHANGED <<crun, nsSynced, isReady>>
    /\ UNCHANGED <<evars, qvars, svars, wvars, hvars>>

\* the handlers registered at lines 77-99 run once the informers do; the
\* events are those of one namespace
StartEvent ==
    /\ crun # "init"
    /\ \/ enqueueNamespace(SyncNamespace)
       \/ podEnqueue(SyncNamespace)

\* lines 105-110: the wait returned true; health.SetReady()
RunSynced ==
    /\ crun = "waiting"
    /\ WaitForCacheSync(HasSyncedAll(nsSynced, podSynced), stopped)
    /\ isReady' = TRUE
    /\ crun' = "ready"
    /\ UNCHANGED <<nsSynced, podSynced>>
    /\ UNCHANGED <<evars, qvars, svars, wvars, hvars>>

\* lines 105-108: the wait returned false because stopCh closed; Run
\* returns and its deferred queue.ShutDown() runs (lines 71-74)
RunSyncFailed ==
    /\ crun = "waiting"
    /\ stopped
    /\ crun' = "failed"
    /\ shuttingDown' = TRUE
    /\ UNCHANGED <<nsSynced, podSynced, isReady>>
    /\ UNCHANGED <<queue, dirty, processing, waiting, failures, stopped,
                   absorbed, wpc, wkey, pass>>
    /\ UNCHANGED <<evars, svars, wvars, hvars>>

\* lines 113-124: the loop starts the worker goroutines one after the other
StartWorker(w) ==
    /\ crun = "ready"
    /\ wpc[w] = "unstarted"
    /\ \A v \in Workers : v < w => wpc[v] # "unstarted"
    /\ wpc' = [wpc EXCEPT ![w] = "get"]
    /\ UNCHANGED <<queue, dirty, processing, waiting, failures, shuttingDown,
                   stopped, absorbed, wkey, pass>>
    /\ UNCHANGED <<evars, svars, wvars, cvars, hvars>>

\* lines 126-149: the loop is over, Run starts the resync goroutine and
\* blocks on <-stopCh
RunServe ==
    /\ crun = "ready"
    /\ \A w \in Workers : wpc[w] # "unstarted"
    /\ crun' = "serving"
    /\ UNCHANGED <<nsSynced, podSynced, isReady>>
    /\ UNCHANGED <<evars, qvars, svars, wvars, hvars>>

\* Run returns from <-stopCh; the deferred queue.ShutDown() runs
RunReturn ==
    /\ crun = "serving"
    /\ stopped
    /\ crun' = "returned"
    /\ shuttingDown' = TRUE
    /\ UNCHANGED <<nsSynced, podSynced, isReady>>
    /\ UNCHANGED <<queue, dirty, processing, waiting, failures, stopped,
                   absorbed, wpc, wkey, pass>>
    /\ UNCHANGED <<evars, svars, wvars, hvars>>

StartInit ==
    /\ EnforcerIdle
    /\ EmptyQueue
    /\ wpc = [w \in Workers |-> "unstarted"]
    /\ SyncIdle
    /\ crun = "init"
    /\ nsSynced = FALSE
    /\ podSynced = FALSE
    /\ isReady = FALSE

StartNext ==
    \/ RunStart
    \/ NsInformerSync
    \/ PodInformerSync
    \/ StartEvent
    \/ DelayOver
    \/ RunSynced
    \/ RunSyncFailed
    \/ \E w \in Workers : StartWorker(w)
    \/ RunServe
    \/ RunReturn
    \/ Stop
    \/ Worker

StartSpec == StartInit /\ [][StartNext]_vars

\* ---- events that arrive while their namespace is being reconciled.  The
\* controller keeps running (stopCh stays open), every delay of the rate
\* limiter ends and every worker goroutine keeps being scheduled.  owed
\* records the events that found their key held by a worker.

\* nsInformer Add/Update/Delete -> queue.Add (lines 77-81)
HeldNamespaceEvent(k) ==
    /\ ~stopped
    /\ QueueAdd(k)
    /\ owed' = IF k \in processing THEN owed \cup {k} ELSE owed
    /\ UNCHANGED <<processing, waiting, failures, shuttingDown, stopped,
                   wpc, wkey, pass>>
    /\ UNCHANGED <<evars, svars, wvars, cvars>>

\* podInformer Add/Update/Delete -> queue.AddRateLimited (lines 83-99)
HeldPodEvent(k) ==
    /\ ~stopped
    /\ failures[k] < MaxFailures
    /\ QueueAddRateLimited(k)
    /\ owed' = IF k \in processing THEN owed \cup {k} ELSE owed
    /\ UNCHANGED <<queue, dirty, processing, shuttingDown, stopped, absorbed,
                   wpc, wkey, pass>>
    /\ UNCHANGED <<evars, svars, wvars, cvars>>

\* the events of one namespace
ChangeEvent ==
    \/ HeldNamespaceEvent(SyncNamespace)
    \/ HeldPodEvent(SyncNamespace)

\* line 175: queue.Get() hands out the head of the queue; a pass starts
PassStart(w) ==
    /\ wpc[w] = "get"
    /\ queue # <<>>
    /\ wkey' = [wkey EXCEPT ![w] = Head(queue)]
    /\ dirty' = dirty \ {Head(queue)}
    /\ queue' = Tail(queue)
    /\ processing' = processing \cup {Head(queue)}
    /\ pass' = [pass EXCEPT ![w] = NoPass]
    /\ wpc' = [wpc EXCEPT ![w] = "sync"]
    /\ absorbed' = absorbed \ {Head(queue)}
    /\ owed' = owed \ {Head(queue)}
    /\ UNCHANGED <<waiting, failures, shuttingDown, stopped>>
    /\ UNCHANGED <<evars, svars, wvars, cvars>>

eventWorker(w) ==
    \/ PassStart(w)
    \/ SyncKey(w)
    \/ DoneKey(w)

EventWorker == \E w \in RetryWorkers : eventWorker(w)

EventNext ==
    \/ ChangeEvent
    \/ DelayOver
    \/ EventWorker

EventSpec ==
    /\ QueueInit
    /\ [][EventNext]_vars
    /\ WF_vars(DelayOverFor(SyncNamespace))
    /\ \A w \in RetryWorkers : WF_vars(eventWorker(w))

\* ---- one policy object read by both sides: the webhook's cache decodes
\* its spec into ResourceQuotaPolicySpec, the reconciler hands it to
\* ParsePolicy

\* handlers.go:180-182: the values ParsePolicy starts from.  "2Gi" is
\* counted in Ki; the totals of the pods here stay far below it.
DefaultMaxPods == 10
DefaultMaxCPU == 2
DefaultMaxMemory == 2 * 1024 * 1024

\* the spec of a policy object: each key is absent ({}) or holds one value
PolicyObjects ==
    [maxPods : {{}} \cup {{n} : n \in {0, 1, 2}},
     maxCPU : {{}} \cup {{q} : q \in {"0", "1", "2"}},
     maxMemory : {{}} \cup {{q} : q \in {"0", "1"}}]

\* the typed spec decoded from the object (part_002:10-14): an absent key
\* leaves the field at its zero value
Decoded(o) ==
    [MaxPods |-> IF o.maxPods = {} THEN 0 ELSE CHOOSE n \in o.maxPods : TRUE,
     MaxCPU |-> IF o.maxCPU = {} THEN "" ELSE CHOOSE q \in o.maxCPU : TRUE,
     MaxMemory |-> IF o.maxMemory = {} THEN ""
                   ELSE CHOOSE q \in o.maxMemory : TRUE]

\* ParsePolicy (handlers.go:179-202): a key that is present and parses
\* replaces the default
ParsePolicy(o) ==
    LET cpu == UNION {ParseQuantity(q) : q \in o.maxCPU}
        mem == UNION {ParseQuantity(q) : q \in o.maxMemory}
    IN  [MaxPods |-> IF o.maxPods = {} THEN DefaultMaxPods
                     ELSE CHOOSE n \in o.maxPods : TRUE,
         MaxCPU |-> IF cpu = {} THEN DefaultMaxCPU
                    ELSE CHOOSE q \in cpu : TRUE,
         MaxMemory |-> IF mem = {} THEN DefaultMaxMemory
                       ELSE CHOOSE q \in mem : TRUE]

\* ---- concurrent admission requests: the API server sends each Pod CREATE
\* to the webhook and stores the pod when the answer is allowed; requests
\* are handled by separate goroutines of the HTTP server, and nothing
\* orders the webhook's List of one request against the store of another.
\* Every List succeeds here.

RaceSpecs == [MaxPods : {1, 2}, MaxCPU : {"2"}, MaxMemory : {"2"}]

RaceInit ==
    /\ \E sp \in RaceSpecs :
          /\ pods \in {S \in SyncPodLists : Cardinality(S) <= sp.MaxPods}
          /\ store = {[ns |-> SyncNamespace, spec |-> sp]}
          /\ api = store
          /\ adm = [NoAdmission EXCEPT !.ns = SyncNamespace, !.spec = {sp}]
    /\ created = Cardinality(pods)
    /\ clock = created
    /\ policy = [MaxPods |-> 0, MaxCPU |-> 0, MaxMemory |-> 0]
    /\ pc = "idle"
    /\ iter = 0
    /\ res = ZeroResult
    /\ lastErr = "nil"
    /\ listed = {}
    /\ target = {}
    /\ ret = NoReturn
    /\ delReqs = 0
    /\ deleted = {}
    /\ churn = FALSE
    /\ reason = ""
    /\ QueueIdle
    /\ policyCache = [k \in Namespaces |-> {}]
    /\ crs = <<>>
    /\ sh = NoSync
    /\ consecFails = 0
    /\ ready = TRUE
    /\ synced = TRUE
    /\ cpc = "serving"
    /\ inflight = <<>>

\* HandleValidatePods (server.go:302-368) for a Pod CREATE in the namespace
\* of the policy; an allowed pod waits to be stored
RaceDecide ==
    /\ Len(inflight) < MaxInflight
    /\ \E cand \in {<<NoRequests>>, <<CpuRequest>>} :
        \E g \in CacheGet(ready, store, SyncNamespace) :
          LET d == Decide(pods, cand, CHOOSE sp \in g.spec : TRUE, TRUE)
          IN  /\ adm' = [at |-> "done", ns |-> SyncNamespace,
                         spec |-> g.spec, pod |-> cand, found |-> g.found,
                         listed |-> d.listed, responded |-> d.responded,
                         allowed |-> d.allowed, message |-> d.message,
                         err |-> d.err]
              /\ inflight' = IF d.responded /\ d.allowed
                             THEN Append(inflight, cand)
                             ELSE inflight
    /\ UNCHANGED <<ready, synced, cpc, store, api>>
    /\ UNCHANGED <<evars, qvars, svars, cvars, hvars>>

\* the API server stores a pod that the webhook allowed
PersistPod ==
    /\ \E i \in 1..Len(inflight) :
          /\ pods' = pods \cup {[id |-> created + 1, ts |-> clock + 1,
                                 phase |-> "Running",
                                 containers |-> inflight[i]]}
          /\ inflight' = SubSeq(inflight, 1, i - 1)
                            \o SubSeq(inflight, i + 1, Len(inflight))
    /\ created' = created + 1
    /\ clock' = clock + 1
    /\ UNCHANGED <<policy, pc, iter, res, lastErr, listed, target, ret,
                   delReqs, deleted, churn, reason>>
    /\ UNCHANGED <<ready, synced, cpc, store, api, adm>>
    /\ UNCHANGED <<qvars, svars, cvars, hvars>>

RaceNext ==
    \/ RaceDecide
    \/ PersistPod

RaceSpec == RaceInit /\ [][RaceNext]_vars

\* ================================================================ claims

\* ---- the work queue and the workers (QueueSpec)

\* worker w is between its Get and the end of that processNextItem call
Holding(w) == wpc[w] \in {"sync", "return"}

Occurrences(k) == Cardinality({n \in 1..Len(queue) : queue[n] = k})

\* C1: at no instant do two workers hold the same namespace key, so the
\* passes of one namespace are sequential; different namespaces can be held
\* at the same time (the witness).
C1_SingleFlight ==
    \A a, b \in Workers :
        (a # b /\ Holding(a) /\ Holding(b)) => wkey[a] # wkey[b]

\* two workers hold different namespaces while an event has marked one of
\* the held keys dirty again
C1_Witness ==
    \E a, b \in Workers :
        /\ Holding(a) /\ Holding(b)
        /\ wkey[a] # wkey[b]
        /\ wkey[a] \in dirty

\* C2: however many Adds of a key arrive before it is dequeued, the queue
\* holds one entry for it: a key never occurs twice in the queue, and a key
\* that needs processing and is not being processed occurs exactly once.
C2_Dedup ==
    \A k \in Namespaces :
        /\ Occurrences(k) <= 1
        /\ (k \in dirty /\ k \notin processing) => Occurrences(k) = 1

\* a key that was added again while pending is queued once
C2_Witness ==
    \E k \in Namespaces :
        /\ k \in absorbed
        /\ k \notin processing
        /\ Occurrences(k) = 1

\* C3: every Get of a key is followed by exactly one Done for it, whether
\* syncHandler returned nil, returned an error or panicked: no Done before
\* the pass ends, the worker can always take the next step of the pass, the
\* key stays marked as processing until then, and a finished pass has
\* called Done once; Forget is called when syncHandler returned nil and
\* AddRateLimited, without Forget, otherwise.
C3_DoneExactlyOncePerGet ==
    \A w \in Workers :
        /\ Holding(w) => (pass[w].dones = 0 /\ wkey[w] \in processing)
        /\ wpc[w] = "sync" => ENABLED SyncKey(w)
        /\ wpc[w] = "return" => (pass[w].outcome # "none" /\ ENABLED DoneKey(w))
        /\ (~Holding(w) /\ pass[w].outcome # "none") =>
              (pass[w].dones = 1 /\ wkey[w] = "")
        /\ pass[w].outcome = "ok" =>
              (pass[w].forgets = 1 /\ pass[w].requeues = 0)
        /\ pass[w].outcome \in {"err", "panic"} =>
              (pass[w].forgets = 0 /\ pass[w].requeues = 1)

\* a pass whose reconciliation panicked has ended with its one Done, while
\* another worker ended a successful pass with Forget
C3_Witness ==
    \E a, b \in Workers :
        /\ wpc[a] = "get" /\ pass[a].outcome = "panic" /\ pass[a].dones = 1
        /\ wpc[b] = "get" /\ pass[b].outcome = "ok" /\ pass[b].forgets = 1

\* ---- the enforcement loop (Spec, ReliableSpec)

Violated == computeUsage(pods, policy).Violation

\* C4: with a policy in place, deletions and listings succeeding, the worker
\* scheduled again and again and only finitely many pods created, the
\* namespace reaches a state whose computed usage does not violate the
\* policy, and stays there.
C4_EventualCompliance == <>[](~Violated)

\* a pass found the namespace in violation, deleted pods and returned a
\* compliant usage
C4_Witness ==
    /\ pc = "done"
    /\ deleted # {}
    /\ ~ret.res.Violation
    /\ ~Violated
    /\ created = MaxCreate

\* no live pod of S sets a resource request
LiveNoRequests(S) == \A p \in LivePods(S) : PodCPU(p) = 0 /\ PodMem(p) = 0

\* C5: with maxPods = N > 0 and live pods without resource requests, a call
\* in which no pod listing fails returns a live count <= N or has used all
\* 10 iterations, and whenever the reason is pods the pod it asks to delete
\* is an oldest one of the pods listed.
C5_PodCountConvergence ==
    /\ (/\ pc = "done"
        /\ policy.MaxPods > 0
        /\ LiveNoRequests(pods \cup deleted)
        /\ ret.err # "list")
       => (ret.res.CurrentPods <= policy.MaxPods \/ iter = 10)
    /\ (target # {} /\ Reason(res) = "pods")
       => \A t \in target : \A o \in listed : t.ts <= o.ts

\* a call on live pods without requests deleted the older of two pods with
\* different timestamps and returned a count within the limit
C5_Witness ==
    /\ pc = "done"
    /\ policy.MaxPods > 0
    /\ LiveNoRequests(pods \cup deleted)
    /\ ret.err = "nil"
    /\ ret.res.CurrentPods <= policy.MaxPods
    /\ \E d \in deleted, p \in pods : ~IsCompleted(d) /\ d.ts < p.ts

\* progress of one call: every step of the call raises it
CallRank ==
    IF pc = "compute" THEN 2 * iter + 1
    ELSE IF pc = "select" THEN 2 * iter + 2
    ELSE IF pc = "final" THEN 2 * 10 + 2
    ELSE IF pc = "done" THEN 2 * 10 + 3
    ELSE 0

C6_Counts ==
    /\ iter <= 10
    /\ delReqs <= 10
    /\ delReqs = iter
    /\ CallRank <= 2 * 10 + 3
    /\ pc \in {"compute", "select", "final"} => ENABLED EnforceStep

\* C6: one call of EnforceUntilOK runs at most 10 iterations and issues at
\* most 10 delete requests, one per iteration at most, and it terminates:
\* while it runs a step of it is always possible, and each step raises a
\* rank that is bounded.
C6_BoundedLoop ==
    /\ []C6_Counts
    /\ [][(pc \in {"compute", "select", "final"} /\ pc' # pc)
            => CallRank' > CallRank]_vars
    /\ [][(pc = "select" /\ pc' = "compute") => delReqs' = delReqs + 1]_vars

\* all 10 iterations were used, every one with a failed delete, and the call
\* returned
C6_Witness ==
    /\ pc = "done"
    /\ iter = 10
    /\ delReqs = 10
    /\ ret.err = "delete"
    /\ ret.res.Violation

\* the first threshold exceeded, in the order pods, cpu, memory
FirstViolated(r, pol) ==
    IF r.CurrentPods > pol.MaxPods THEN "pods"
    ELSE IF r.CurrentCPU > pol.MaxCPU THEN "cpu"
    ELSE IF r.CurrentMemory > pol.MaxMemory THEN "memory"
    ELSE ""

\* every threshold of the policy is set (non-zero)
LimitsSet(pol) == pol.MaxPods > 0 /\ pol.MaxCPU > 0 /\ pol.MaxMemory > 0

\* C7: the reason of the result of computeUsage is the first violated
\* threshold in the order pods, cpu, memory (none when nothing is
\* violated); stated for policies whose thresholds are all set.
C7_ReasonIsFirstViolation ==
    (pc = "computed" /\ LimitsSet(policy))
       => Reason(res) = FirstViolated(res, policy)

\* C8: when the pod count is exceeded, whatever else is exceeded too, the
\* pod the iteration asks to delete is an oldest one of the pods listed;
\* stated for policies whose thresholds are all set.
C8_ActsOnFirstViolation ==
    (/\ target # {}
     /\ pc # "selected"
     /\ LimitsSet(policy)
     /\ res.CurrentPods > policy.MaxPods)
    => \A t \in target : \A o \in listed : t.ts <= o.ts

\* C9: for a non-empty list selectPodToDelete returns a pod of the list with
\* the minimum creation timestamp when the reason is pods and with the
\* maximum when it is cpu or memory; it returns not-found only for the
\* empty list.
C9_VictimSelection ==
    pc = "selected" =>
        /\ target \subseteq listed
        /\ (target = {}) <=> (listed = {})
        /\ \A t \in target :
              /\ reason = "pods" => \A o \in listed : t.ts <= o.ts
              /\ reason \in {"cpu", "memory"} => \A o \in listed : t.ts >= o.ts

\* for cpu the later of two pods with different timestamps was returned
C9_Witness ==
    /\ pc = "selected"
    /\ reason = "cpu"
    /\ \E t \in target, o \in listed : t.ts > o.ts

\* only the CPU threshold is exceeded on S, and taking away a newest pod
\* of S brings the usage within the limits
OnlyCPUExceeded(S) ==
    LET r == computeUsage(S, policy)
    IN  /\ r.CurrentPods <= policy.MaxPods
        /\ r.CurrentCPU > policy.MaxCPU
        /\ r.CurrentMemory <= policy.MaxMemory

NewestFixes(S) ==
    \A n \in Newest(S) : ~computeUsage(S \ {n}, policy).Violation

\* C10: a call that starts with only the CPU threshold exceeded, where
\* removing the newest pod is enough, and during which no pod is created,
\* deletes no pod but a newest one and at most one; when it returns without
\* error it has deleted exactly one.
C10_OneNewestEviction ==
    (/\ pc # "idle"
     /\ ~churn
     /\ OnlyCPUExceeded(pods \cup deleted)
     /\ NewestFixes(pods \cup deleted))
    => /\ deleted \subseteq Newest(pods \cup deleted)
       /\ Cardinality(deleted) <= 1
       /\ (pc = "done" /\ ret.err = "nil") => Cardinality(deleted) = 1

\* such a call returned after deleting the newer of two pods
C10_Witness ==
    /\ pc = "done"
    /\ ~churn
    /\ OnlyCPUExceeded(pods \cup deleted)
    /\ NewestFixes(pods \cup deleted)
    /\ ret.err = "nil"
    /\ Cardinality(deleted) = 1
    /\ \E d \in deleted, p \in pods : p.ts < d.ts

\* ---- thresholds and usage (PureSpec)

\* a threshold that is set (non-zero) is exceeded
SetThresholdExceeded(r, pol) ==
    \/ pol.MaxPods > 0 /\ r.CurrentPods > pol.MaxPods
    \/ pol.MaxCPU > 0 /\ r.CurrentCPU > pol.MaxCPU
    \/ pol.MaxMemory > 0 /\ r.CurrentMemory > pol.MaxMemory

\* C11: a threshold of zero means unlimited: computeUsage reports a
\* violation only when usage exceeds a threshold that is set (non-zero),
\* and the reason never names a threshold that is zero.
C11_ZeroMeansUnlimited ==
    pc = "computed" =>
        /\ res.Violation => SetThresholdExceeded(res, policy)
        /\ Reason(res) = "pods" => policy.MaxPods > 0
        /\ Reason(res) = "cpu" => policy.MaxCPU > 0
        /\ Reason(res) = "memory" => policy.MaxMemory > 0

\* the pod of the list with the given id, as a set
PodWithId(S, n) == {p \in S : p.id = n}

\* what one pod adds to a total: nothing when its phase is Succeeded or
\* Failed, else the requests its containers set for the resource, container
\* by container
RECURSIVE ContainersFrom(_, _, _)
ContainersFrom(p, k, field) ==
    IF k > Len(p.containers) THEN 0
    ELSE LET c == p.containers[k]
             q == IF field = "cpu" THEN c.cpu ELSE c.mem
         IN  (IF q = {} THEN 0 ELSE CHOOSE x \in q : TRUE)
             + ContainersFrom(p, k + 1, field)

RECURSIVE ExpectedTotal(_, _, _)
ExpectedTotal(S, n, field) ==
    IF n = 0 THEN 0
    ELSE LET here == {p \in PodWithId(S, n) :
                        p.phase \notin {"Succeeded", "Failed"}}
         IN  (IF here = {} THEN 0
              ELSE ContainersFrom(CHOOSE p \in here : TRUE, 1, field))
             + ExpectedTotal(S, n - 1, field)

\* C12: computeUsage returns the number of pods whose phase is neither
\* Succeeded nor Failed, and as CPU and memory totals the sums of the
\* requests of all containers of exactly those pods; a container without a
\* request adds zero and limits are not counted.
C12_UsageComputation ==
    pc = "computed" =>
        /\ res.CurrentPods =
              Cardinality({p \in pods : p.phase \notin {"Succeeded", "Failed"}})
        /\ res.CurrentCPU = ExpectedTotal(pods, Cardinality(pods), "cpu")
        /\ res.CurrentMemory = ExpectedTotal(pods, Cardinality(pods), "memory")

\* a Failed pod with requests was left out and the requests of the two
\* containers of a live pod were added up
C12_Witness ==
    /\ pc = "computed"
    /\ \E p \in pods : p.phase = "Failed" /\ PodCPU(p) > 0
    /\ \E p \in pods : p.phase = "Running" /\ p.containers = <<BothRequest, CpuRequest>>
    /\ res.CurrentPods = 1
    /\ res.CurrentCPU = 2
    /\ res.CurrentMemory = 1

\* ---- repeated reconciliation (Spec)

\* the usage of the namespace, counted pod by pod, is within the policy
Compliant(S) ==
    /\ Cardinality({p \in S : p.phase \notin {"Succeeded", "Failed"}})
          <= policy.MaxPods
    /\ ExpectedTotal(S, created, "cpu") <= policy.MaxCPU
    /\ ExpectedTotal(S, created, "memory") <= policy.MaxMemory

\* C13: a call of EnforceUntilOK on a compliant namespace that nothing
\* changes meanwhile issues no delete request and leaves every pod in
\* place, and the result it returns without error is the usage of the
\* namespace with no violation and an empty message: a function of the
\* unchanged pods and policy alone, so consecutive calls return identical
\* results.
C13_IdempotentWhenCompliant ==
    (pc # "idle" /\ ~churn /\ Compliant(pods \cup deleted))
    => /\ delReqs = 0
       /\ deleted = {}
       /\ pc \notin {"select", "final"}
       /\ (pc = "done" /\ ret.err = "nil") =>
             ret.res =
               [CurrentPods |->
                  Cardinality({p \in pods :
                                 p.phase \notin {"Succeeded", "Failed"}}),
                CurrentCPU |-> ExpectedTotal(pods, created, "cpu"),
                CurrentMemory |-> ExpectedTotal(pods, created, "memory"),
                Violation |-> FALSE,
                Message |-> <<>>]

\* a call returned on a compliant namespace that holds a live pod with a
\* request and a completed pod, at the limit of the policy
C13_Witness ==
    /\ pc = "done"
    /\ ~churn
    /\ Compliant(pods)
    /\ ret.err = "nil"
    /\ ret.res.CurrentPods = policy.MaxPods
    /\ ret.res.CurrentCPU = policy.MaxCPU
    /\ \E p \in pods : IsCompleted(p)
    /\ delReqs = 0

\* ---- panics (QueueSpec)

\* C18: a panic inside the reconciliation of a key is contained: the pass
\* ends as a failed pass of that key (AddRateLimited once, no Forget, the
\* key parked for its delay or already pending again unless the queue is
\* shutting down), Done follows, the worker returns to Get and can take the
\* next key, and a worker leaves its loop only when the queue is shut down,
\* so panics never reduce the number of workers.
C18_PanicContained ==
    \A w \in Workers :
        /\ wpc[w] \in {"get", "sync", "return", "exited"}
        /\ wpc[w] = "exited" => shuttingDown
        /\ pass[w].outcome = "panic" =>
              /\ pass[w].requeues = 1 /\ pass[w].forgets = 0
              /\ wpc[w] = "return" =>
                    /\ ENABLED DoneKey(w)
                    /\ (wkey[w] \in waiting \/ wkey[w] \in dirty \/ shuttingDown)
              /\ wpc[w] # "return" => pass[w].dones = 1
              /\ (wpc[w] = "get" /\ queue # <<>>) => ENABLED GetKey(w)

\* after a pass that panicked the worker is back at Get with a key to take,
\* and every worker is still running
C18_Witness ==
    /\ ~shuttingDown
    /\ queue # <<>>
    /\ \A v \in Workers : wpc[v] # "exited"
    /\ \E w \in Workers :
          wpc[w] = "get" /\ pass[w].outcome = "panic" /\ pass[w].dones = 1

\* ---- syncHandler (SyncSpec)

\* worker w has finished the pass that sh describes
PassOver(w) == sh.at = "done" /\ wpc[w] \in {"return", "get"}

\* C14: a pass that finds no policy object in the namespace removes the
\* namespace's cached policy, never calls EnforceUntilOK (so it issues no
\* delete request), writes no status, and ends with nil: Forget and no
\* AddRateLimited.
C14_NoPolicyNoConstraint ==
    sh.uncached =>
        /\ sh.at = "done"
        /\ policyCache[SyncNamespace] = {}
        /\ pc = "idle"
        /\ ~sh.deletes
        /\ sh.statusWrites = 0
        /\ \A w \in SyncWorkers :
              PassOver(w) =>
                  /\ pass[w].outcome = "ok"
                  /\ pass[w].forgets = 1
                  /\ pass[w].requeues = 0

\* the pods exceed the policy last enforced, whose object is gone, and the
\* pass has ended without touching them
C14_Witness ==
    /\ sh.uncached
    /\ policy \in SyncPolicies
    /\ computeUsage(pods, policy).Violation
    /\ Cardinality(pods) = MaxCreate
    /\ \E w \in SyncWorkers : wpc[w] = "get" /\ pass[w].outcome = "ok"

\* C15: a pass in which the status update of a policy object failed ends
\* with an error: AddRateLimited is called for the key and Forget is not.
C15_StatusFailureRetried ==
    \A w \in SyncWorkers :
        (PassOver(w) /\ sh.statusFailed) =>
            /\ pass[w].outcome = "err"
            /\ pass[w].requeues = 1
            /\ pass[w].forgets = 0

\* C16: a pass in which EnforceUntilOK returned an error ends with an
\* error: AddRateLimited is called for the key and Forget is not.
C16_EnforceErrorRetried ==
    \A w \in SyncWorkers :
        (PassOver(w) /\ sh.enforceFailed) =>
            /\ pass[w].outcome = "err"
            /\ pass[w].requeues = 1
            /\ pass[w].forgets = 0

\* C17: the backoff counter of the namespace equals the number of its
\* consecutive failed passes since the last successful one.
C17_BackoffCountsFailures == failures[SyncNamespace] = consecFails

\* ---- shutdown (StopSpec)

AllExited == \A w \in Workers : wpc[w] = "exited"

Reconciling(k) == \E w \in Workers : wpc[w] = "sync" /\ wkey[w] = k

C19_FailingNamespaceRetried ==
    /\ []<>(stopped \/ Reconciling(SyncNamespace))
    /\ \A k \in Namespaces \ {SyncNamespace} :
          (InQueue(k) ~> Reconciling(k))

\* the failing namespace has failed MaxFailures times, is parked by the
\* rate limiter, and another namespace waits on the queue
C19_Witness ==
    /\ ~stopped
    /\ failures[SyncNamespace] = MaxFailures
    /\ SyncNamespace \in waiting
    /\ \E w \in Workers : /\ pass[w].outcome \in {"err", "panic"}
                          /\ pass[w].dones = 1
    /\ \E k \in Namespaces \ {SyncNamespace} : InQueue(k)

\* ---- the status written by syncHandler (SyncSpec)

C22_FirstPolicyOnly ==
    /\ sh.at \in {"item", "enforce"} =>
          /\ sh.item = 1
          /\ sh.at = "enforce" =>
                policyCache[SyncNamespace] = {sh.list[1]}
    /\ sh.statusWrites <= 1

\* ---- the iteration cap (CrowdedSpec)

\* C23: when EnforceUntilOK has used all maxIterations iterations, every
\* Delete succeeded, and the final usage computation still finds a
\* violation, it returns that usage with Violation set and a nil error.
C23_CapIsNotAnError ==
    (/\ pc = "done"
     /\ iter = maxIterations
     /\ Cardinality(deleted) = maxIterations
     /\ ret.err # "list"
     /\ computeUsage(pods, policy).Violation)
        => /\ ret.err = "nil"
           /\ ret.res = computeUsage(pods, policy)
           /\ ret.res.Violation

\* ten pods were deleted and the namespace is still over its pod limit
C23_Witness ==
    /\ pc = "done"
    /\ iter = maxIterations
    /\ Cardinality(deleted) = maxIterations
    /\ ret.err = "nil"
    /\ ret.res.Violation
    /\ ret.res.CurrentPods > policy.MaxPods
    /\ policy.MaxPods > 0

\* ---- no pod to delete (GoneSpec)

\* C24: when the usage is violated and the List of the iteration offers no
\* pod to delete, the step that follows either is the failed List or ends
\* the call: no Delete is issued, the usage just computed is returned with
\* Violation set and a message that is not a threshold message, and the
\* error is nil.
C24_NoVictimStops ==
    [][(/\ pc = "select"
        /\ selectPodToDelete(pods, Reason(res)) = {}
        /\ pc' # "select")
         => \/ pc' = "final" /\ lastErr' = "list"
            \/ /\ pc' = "done"
               /\ ret'.err = "nil"
               /\ ret'.res.Violation
               /\ ret'.res.Message # NoMessage
               /\ Reason(ret'.res) = ""
               /\ ret'.res.CurrentPods = res.CurrentPods
               /\ ret'.res.CurrentCPU = res.CurrentCPU
               /\ ret'.res.CurrentMemory = res.CurrentMemory
               /\ delReqs' = delReqs
               /\ target' = {}
               /\ pods' = pods]_vars

\* the call ended because the pods that made the violation were gone when
\* it looked for one to delete
C24_Witness ==
    /\ pc = "done"
    /\ ret.res.Message = NoSuitablePod
    /\ ret.res.Violation
    /\ ret.err = "nil"
    /\ delReqs = 0
    /\ pods = {}

\* ---- the admission decision (AdmitSpec)

LivePodsSeen == {p \in pods : p.phase \notin {PodSucceeded, PodFailed}}

AdmSpec == CHOOSE sp \in adm.spec : TRUE

\* the usage the decision projects: the live pods plus the candidate
ProjectedPods == Cardinality(LivePodsSeen) + 1
ProjectedCPU == TotalCPU(LivePodsSeen) + PodCPU([containers |-> adm.pod])
ProjectedMem == TotalMem(LivePodsSeen) + PodMem([containers |-> adm.pod])

\* the value of a limit string: unset and zero both mean no limit
LimitOf(str) ==
    IF str = "1" THEN 1 ELSE IF str = "2" THEN 2 ELSE 0

\* C28: with maxPods = N > 0 and at least N live pods in the namespace, a
\* decision that read the pods rejects the candidate, with a reason that
\* names the pod-count check, whatever the candidate requests.
C28_PodLimitRejects ==
    (/\ adm.at = "done"
     /\ adm.found
     /\ (adm.responded => adm.listed)
     /\ AdmSpec.MaxPods > 0
     /\ Cardinality(LivePodsSeen) >= AdmSpec.MaxPods)
        => /\ adm.responded
           /\ ~adm.allowed
           /\ adm.message # <<>>
           /\ adm.message[1] = "maxPods exceeded"

\* C29: a decision that read the pods rejects for pods when maxPods > 0 and
\* the projected count is above it, else for cpu when maxCPU > 0 and the
\* projected CPU is above it, else for memory when maxMemory > 0 and the
\* projected memory is above it, and accepts otherwise.
C29_DecisionFunction ==
    (/\ adm.at = "done"
     /\ adm.found
     /\ (adm.responded => adm.listed))
        => LET maxPods == AdmSpec.MaxPods
               maxCPU == LimitOf(AdmSpec.MaxCPU)
               maxMem == LimitOf(AdmSpec.MaxMemory)
           IN  /\ adm.responded
               /\ IF maxPods > 0 /\ ProjectedPods > maxPods
                  THEN ~adm.allowed /\ adm.message[1] = "maxPods exceeded"
                  ELSE IF maxCPU > 0 /\ ProjectedCPU > maxCPU
                  THEN ~adm.allowed /\ adm.message[1] = "cpu exceeded"
                  ELSE IF maxMem > 0 /\ ProjectedMem > maxMem
                  THEN ~adm.allowed /\ adm.message[1] = "memory exceeded"
                  ELSE adm.allowed

\* C30: every decision for a policy found in the cache ends with a
\* response, also when the policy leaves maxCPU or maxMemory unset.
C30_DecisionAlwaysAnswers ==
    (adm.at = "done" /\ adm.found) => adm.responded

\* ---- the policy cache and the requests without a policy (WebhookSpec)

HasPolicy(ns) == \E o \in store : o.ns = ns

\* C25: a request handled while the cache has no entry for its namespace
\* (not ready, or no policy object of the namespace in the store) is
\* allowed, whatever the candidate requests and however many pods the
\* namespace holds, and no pods are listed for it.
C25_FailOpenWithoutPolicy ==
    [][(adm' # adm /\ adm'.at = "done"
          /\ (~ready \/ ~HasPolicy(adm'.ns)))
          => /\ ~adm'.found
             /\ adm'.responded
             /\ adm'.allowed
             /\ ~adm'.listed]_vars

\* a pod with a CPU request was allowed in the namespace that holds pods,
\* while the store held a policy of that namespace and the cache was not
\* ready
C25_Witness ==
    /\ adm.at = "done"
    /\ adm.ns = SyncNamespace
    /\ adm.pod = <<CpuRequest>>
    /\ Cardinality(pods) = MaxCreate
    /\ ~ready
    /\ HasPolicy(SyncNamespace)
    /\ ~adm.found
    /\ adm.allowed

\* C26: while ready is false Get returns not-found for every namespace,
\* whatever the store holds, and a request handled then finds no policy.
C26_NotReadyNotFound ==
    /\ [](~ready => \A ns \in Namespaces :
                       CacheGet(ready, store, ns) = {NotFound})
    /\ [][(adm' # adm /\ adm'.at = "done" /\ ~ready) => ~adm'.found]_vars

\* the informer has filled the store with policies of both namespaces and
\* ready is still false
C26_Witness ==
    /\ ~ready
    /\ synced
    /\ \A ns \in Namespaces : HasPolicy(ns)
    /\ adm.at = "done"

\* C27: ready is false at the start, turns true only in a step of Run
\* that follows the completed initial sync, never turns false again, and
\* stays false for ever once stopCh is closed before the sync completed.
C27_ReadyOnceAfterSync ==
    /\ ~ready
    /\ [][ready => ready']_vars
    /\ [][(~ready /\ ready') => (synced /\ cpc = "waiting")]_vars
    /\ [](ready => synced)
    /\ [][(stopped /\ ~synced) => (stopped' /\ ~synced' /\ ~ready')]_vars

\* Run returned because stopCh was closed before the initial sync
C27_Witness ==
    /\ cpc = "returned"
    /\ stopped
    /\ ~synced
    /\ ~ready

\* C31: a decision whose List of the namespace's pods failed is answered
\* allowed, without a rejection message, whatever the policy and the
\* candidate are.
C31_FailOpenOnListError ==
    (adm.at = "done" /\ adm.err = "list")
        => /\ adm.responded
           /\ adm.allowed
           /\ adm.message = <<>>

\* the List failed for a candidate that the pod limit would have refused
C31_Witness ==
    /\ adm.at = "done"
    /\ adm.err = "list"
    /\ adm.allowed
    /\ AdmSpec.MaxPods = 1
    /\ Cardinality(LivePodsSeen) >= 1
    /\ adm.pod = <<BothRequest, CpuRequest>>

\* C32: a step that handles an admission request, whatever its answer,
\* leaves the pods, the policy objects in the API server and in the caches,
\* the ready flag and the policy statuses as they were.
C32_DecisionChangesNothing ==
    [][(adm' # adm /\ adm'.at = "done")
          => /\ pods' = pods
             /\ store' = store
             /\ ready' = ready
             /\ crs' = crs
             /\ policyCache' = policyCache
             /\ sh' = sh]_vars

\* a pod was allowed into a namespace that holds pods and a policy
C32_Witness ==
    /\ adm.at = "done"
    /\ adm.ns = SyncNamespace
    /\ adm.found
    /\ adm.listed
    /\ adm.allowed
    /\ pods # {}

\* C33: a step that handles an invalidate request leaves the ready flag as
\* it was, and Get returns for every namespace what it returned before.
C33_InvalidateIsNoOp ==
    [][(adm' # adm /\ adm'.at = "invalidated")
          => /\ ready' = ready
             /\ \A ns \in Namespaces :
                   CacheGet(ready', store', ns) = CacheGet(ready, store, ns)]_vars

\* the namespace that was invalidated still has its policy in a ready cache
C33_Witness ==
    /\ adm.at = "invalidated"
    /\ ready
    /\ HasPolicy(adm.ns)

\* ---- the cache follows the API server (WatchSpec)

GetFinds(o) ==
    /\ [found |-> TRUE, spec |-> {o.spec}] \in CacheGet(ready, store, o.ns)
    /\ \A g \in CacheGet(ready, store, o.ns) : g.found

\* C34: while watch events are delivered (stopCh is open), a policy object
\* that exists while the cache is ready is eventually one that Get returns
\* for its namespace, with Get finding a policy, unless it is deleted first;
\* and a namespace without a policy object while the cache is ready is
\* eventually one for which Get returns not-found, unless a policy is
\* created in it first.
C34_CacheFollowsApi ==
    /\ \A o \in StoreObjects :
          (ready /\ o \in api) ~> (stopped \/ o \notin api \/ GetFinds(o))
    /\ \A ns \in Namespaces :
          (ready /\ ~\E o \in api : o.ns = ns)
             ~> \/ stopped
                \/ \E o \in api : o.ns = ns
                \/ CacheGet(ready, store, ns) = {NotFound}

\* the namespace's last policy was deleted from the API server while the
\* ready cache still holds it
C34_Witness ==
    /\ ready
    /\ ~stopped
    /\ api = {}
    /\ HasPolicy(SyncNamespace)

\* ---- the start-up of the controller (StartSpec)

\* C35: /readyz answers 200 only when both informers have synced, and once
\* it does it keeps doing so; no worker goroutine exists and no key leaves
\* the queue before both informers have synced; and when the wait for the
\* caches failed, /readyz never answers 200 and no worker was started.
C35_ReadyAfterSync ==
    /\ [](ReadyzHandler(isReady) = 200 => (nsSynced /\ podSynced))
    /\ [][ReadyzHandler(isReady) = 200
             => ReadyzHandler(isReady') = 200]_vars
    /\ []((\E w \in Workers : wpc[w] # "unstarted")
             => (nsSynced /\ podSynced /\ isReady))
    /\ [][Len(queue') < Len(queue) => (nsSynced /\ podSynced)]_vars
    /\ [](crun = "failed"
             => /\ ReadyzHandler(isReady) = 503
                /\ \A w \in Workers : wpc[w] = "unstarted")

\* stopCh closed while only one informer had synced and keys were queued:
\* Run returned, nothing was dequeued
C35_Witness ==
    /\ crun = "failed"
    /\ nsSynced
    /\ ~podSynced
    /\ queue # <<>>

\* ---- the pods the enforcement loop deletes and the error it returns (Spec)

\* C36: every pod deleted by a call of EnforceUntilOK is a live pod (phase
\* neither Succeeded nor Failed), and every successful deletion makes the
\* pod count that computeUsage reports strictly smaller.
C36_OnlyLivePodsDeleted ==
    /\ [](\A p \in deleted : ~IsCompleted(p))
    /\ [][deleted' # deleted /\ deleted' # {}
             => computeUsage(pods', policy).CurrentPods
                   < computeUsage(pods, policy).CurrentPods]_vars

\* C37: a call of EnforceUntilOK returns a non-nil error only when a pod
\* listing failed, or when a delete failed and the usage it returns is still
\* in violation; a compliant usage comes with a nil error.
C37_ErrorOnlyWhenStillViolating ==
    pc = "done" =>
        (ret.err # "nil" => (ret.err = "list" \/ ret.res.Violation))

\* ---- concurrent admission requests (RaceSpec)

\* C38: with maxPods = N > 0, at most N live pods in the namespace at the
\* start, and every pod created only after the webhook allowed it, the
\* namespace never holds more than N live pods, however the decisions and
\* the creations interleave.
C38_AdmissionKeepsPodLimit ==
    Cardinality(LivePods(pods)) <= AdmSpec.MaxPods

\* ---- admission and reconciliation on the same policy object (AdmitSpec)

\* the candidate of the request once it is stored in the namespace
AdmittedPod ==
    [id |-> Cardinality(pods) + 1, ts |-> 2, phase |-> "Pending",
     containers |-> adm.pod]

\* C39: when a decision that listed the namespace's pods allows the
\* candidate, computeUsage on those pods plus the candidate reports no
\* violation for the policy ParsePolicy reads from the same policy object,
\* whichever of maxPods, maxCPU and maxMemory the object sets, leaves out
\* or sets to zero.
C39_AdmittedPodNotEvicted ==
    (adm.at = "done" /\ adm.responded /\ adm.allowed /\ adm.listed)
        => \A o \in PolicyObjects :
              Decoded(o) = AdmSpec
                 => ~computeUsage(pods \cup {AdmittedPod},
                                  ParsePolicy(o)).Violation

\* ---- events during a pass (EventSpec)

\* C40: a key that an event enqueued while a worker held it is, once the
\* worker has called Done, on the queue or parked by the rate limiter; it
\* gets onto the queue again, and a pass of it starts after the event.
C40_EventDuringPassNotLost ==
    LET k == SyncNamespace
    IN  /\ []((k \in owed /\ k \notin processing)
                 => (InQueue(k) \/ k \in waiting))
        /\ (k \in owed) ~> InQueue(k)
        /\ (k \in owed) ~> (k \notin owed)

\* a namespace event and a pod event came for a key while a worker was
\* reconciling it; the worker has called Done and the key is pending
C40_Witness ==
    /\ SyncNamespace \in owed
    /\ SyncNamespace \notin processing
    /\ InQueue(SyncNamespace)
    /\ SyncNamespace \in waiting

====
